---- MODULE Spec2Model ----
(***************************************************************************)
(* User directory front end: the list-state store (usersSlice), the App    *)
(* component's effects and handlers (listing fetch, page reset, rate-limit *)
(* retry), the rate-limit countdown toast and the recently-viewed cache.   *)
(*                                                                         *)
(* React is modelled as it schedules the code: an event handler or a       *)
(* network/timer callback runs to completion and leaves the component      *)
(* "dirty"; the following Commit step is the re-render together with the   *)
(* effects whose dependency lists changed, run in declaration order with   *)
(* the values of that render.  No event is taken while a Commit is due.    *)
(* The production build is modelled (no StrictMode double mount).          *)
(***************************************************************************)
EXTENDS Integers, Sequences, FiniteSets, TLC

\* ------------------------------------------------------------ constants
USERS_PER_PAGE == 30
DefaultRetryAfter == 60
RecentCap == 10
\* '' is the empty (falsy) id that normalizeUser yields when the gateway
\* sends neither _id nor id; it is written 0 here.
NoId == 0

\* ------------------------------------------------------------ bounds
\* requests issued in one page life (between two reloads)
MaxReq == 5
\* operations of the detail view (opening, recents, delete, update, backend
\* switch) in one behaviour
MaxRecOps == 2
\* requests issued in one page life under rate limiting (SpecRate)
MaxRateReq == 4
\* requests issued in one page life of the bulk-action behaviours
MaxBulkReq == 5
\* requests issued in one page life of the panel behaviours (SpecPanel)
MaxPanelReq == 7
\* requests issued in one page life of the import behaviours (SpecImport)
MaxImportReq == 6
MaxStoreReq == 5
\* requests per page life in the response-order specification
MaxOrderReq == 5
\* showNotification calls in the notification specification
MaxNotify == 3

\* ------------------------------------------------------------ values
Null == <<>>
Some(x) == <<x>>

SearchValues == {"", "a"}
GenderFilters == {"all", "female"}
DepartmentFilters == {"all", "Eng"}
SortKeys == {"firstName", "city"}
SortOrders == {"asc", "desc"}
Backends == {"node", "fastapi"}

\* String.prototype.trim
Trim(s) == IF s = " " THEN "" ELSE s

Ceil(n, d) == (n + d - 1) \div d
Max(a, b) == IF a >= b THEN a ELSE b
Min(a, b) == IF a <= b THEN a ELSE b

SeqToSet(s) == {s[i] : i \in 1..Len(s)}
\* Array.prototype.slice(0, n)
Slice0(s, n) == SubSeq(s, 1, Min(n, Len(s)))

VARIABLES
  \* usersSlice state
  items, departments, searchQuery, genderFilter, departmentFilter,
  selectedUsers, bulkMode, currentPage, totalUsers, sortBy, sortOrder,
  isLoading, rateLimitInfo,
  \* App component state
  isLoggedIn, selectedUser, isModalOpen, recentUsers, showCreateForm,
  currentBackend, confirmDialog,
  \* browser storage
  sessionLoggedIn, lsBackend, lsRecents,
  \* React bookkeeping: mounted, render due, last dependency lists, timers
  mounted, dirty, fetchDeps, resetDeps, rlDeps, refreshTimer, toastLeft,
  \* gateway requests in flight, number issued in this page life,
  \* notifications shown (the handlers' calls only append; the timers and the
  \* dismissal are those of the notification section)
  inflight, nReq, notifications,
  \* observation: the last step taken; kind and starting page of the last
  \* query-parameter change and their number; how the last rate-limit signal
  \* ended and how many retry requests it got; recents operations done
  ev, lastIntent, nChanges, sigFate, sigRetries, recOps,
  \* bound on the requests of one page life in this behaviour
  reqCap,
  \* App component state: Deleted Users panel shown, import preview and the
  \* file retained for the confirm phase
  showDeletedPanel, importPreview, pendingImportFile,
  \* DeletedPanel component state
  deletedUsers, loading, selectedDeleted, panelBulkMode, panelConfirm,
  \* observation: number of confirmations requested in this page life
  nConf,
  \* NotificationProvider, recorded in full only by showNotification and
  \* removeNotification: timeoutRefs.current, the browser's pending timeouts,
  \* the last id handed out, whether the clock still shows the millisecond of
  \* that id, and the number of showNotification calls
  timeoutRefs, timeouts, lastId, sameMs, nShown,
  \* a gateway record handed to normalizeUser and what came back
  normIn, normOut,
  \* which bulk mode this behaviour exercises: the one of the main list or
  \* the one of the Deleted Users panel
  bulkScope,
  \* the create form shows its success message
  submitSuccess,
  \* observation, Null where it is not recorded: the parameters of the listing
  \* request whose response filled the store, whether that response was the
  \* latest one to settle, and whether every listing response so far settled
  \* in the order the requests were sent
  shown

storeVars == <<items, departments, searchQuery, genderFilter, departmentFilter,
               selectedUsers, bulkMode, currentPage, totalUsers, sortBy, sortOrder,
               isLoading, rateLimitInfo>>
appVars == <<isLoggedIn, selectedUser, isModalOpen, recentUsers, showCreateForm,
             currentBackend, confirmDialog>>
browserVars == <<sessionLoggedIn, lsBackend, lsRecents>>
reactVars == <<mounted, fetchDeps, resetDeps, rlDeps, refreshTimer, toastLeft>>
netVars == <<inflight, nReq>>
paramObs == <<lastIntent, nChanges, shown>>
sigObs == <<sigFate, sigRetries>>
importVars == <<importPreview, pendingImportFile>>
panelVars == <<showDeletedPanel, deletedUsers, loading, selectedDeleted, panelBulkMode,
               panelConfirm>>
uiExt == <<importVars, panelVars, nConf, submitSuccess>>
normVars == <<normIn, normOut>>
givenVars == <<normVars, bulkScope>>
notifyVars == <<timeoutRefs, timeouts, lastId, sameMs, nShown>>
extVars == <<uiExt, givenVars, notifyVars>>
vars == <<storeVars, appVars, browserVars, reactVars, dirty, netVars,
          notifications, ev, paramObs, sigObs, recOps, reqCap, extVars>>

\* what a render of App and of its children reads: a change of it schedules
\* a re-render
View == <<storeVars, appVars, notifications, importVars, panelVars, submitSuccess>>

\* ------------------------------------------------------------ users
\* A gateway record: its two id fields (NoId = absent) and the revision of
\* its editable data.
\* The image field of a gateway record is a JSON value: absent, null, a
\* number, or a string, which is kept as the tuple of its characters.
ImageField(t, s) == [t |-> t, s |-> s]

RawUserWithImage(a, b, r, img) == [_id |-> a, id |-> b, rev |-> r, image |-> img]

RawUser(a, b, r) == RawUserWithImage(a, b, r, ImageField("absent", <<>>))

\* the literal 'http' of the test in normalizeUser
HttpPrefix == <<"h", "t", "t", "p">>

\* components/config: the configured gateway origin, http://h
API_BASE == HttpPrefix \o <<":", "/", "/", "h">>

\* String.prototype.startsWith
startsWith(s, prefix) ==
  Len(s) >= Len(prefix) /\ SubSeq(s, 1, Len(prefix)) = prefix

\* the image expression of normalizeUser: null stands for no image
normalizeImage(field) ==
  LET rawImage == IF field.t = "string" THEN Some(field.s) ELSE Null
      truthy == rawImage # Null /\ rawImage[1] # <<>>
  IN  IF truthy /\ startsWith(rawImage[1], HttpPrefix) THEN rawImage
      ELSE IF truthy THEN Some(API_BASE \o rawImage[1])
      ELSE Null

\* the two id fields left as the gateway sent them
normalizeUserKeepsIds(raw) ==
  [_id |-> raw._id, id |-> raw.id, rev |-> raw.rev, image |-> normalizeImage(raw.image)]

normalizeUser(raw) ==
  LET idValue == IF raw._id # NoId THEN raw._id ELSE raw.id
  IN  [_id |-> idValue, id |-> idValue, rev |-> raw.rev,
       image |-> normalizeImage(raw.image)]


\* ------------------------------------------------------------ recents storage
\* one storage key for every backend
getRecentViewedKeyShared(backend) == <<"recentviewedusers", "node", "v1">>

getRecentViewedKey(backend) == <<"recentviewedusers", backend, "v1">>

RecentKeys == {<<"recentviewedusers", b, "v1">> : b \in Backends}

\* a localStorage value: absent, a string JSON.parse rejects, or a stored list
Missing == [tag |-> "missing", list |-> <<>>]
Corrupt == [tag |-> "corrupt", list |-> <<>>]
JSONstringify(list) == [tag |-> "json", list |-> list]
ParseThrows(stored) == stored.tag = "corrupt"
\* raw ? JSON.parse(raw) : []   (only where ParseThrows is false)
ParseOrEmpty(stored) == IF stored.tag = "json" THEN stored.list ELSE <<>>

\* ------------------------------------------------------------ requests
NoParams == [skip |-> 0, limit |-> 0, sort_by |-> "", sort_order |-> "",
             search |-> Null, gender |-> Null, department |-> Null]
\* before any listing response of this page life
NothingShown == [params |-> NoParams, applied |-> FALSE, ordered |-> TRUE]

\* URLSearchParams built by fetchUsers from the values of the render
ListParams ==
  [skip |-> (currentPage - 1) * USERS_PER_PAGE,
   limit |-> USERS_PER_PAGE,
   sort_by |-> sortBy,
   sort_order |-> sortOrder,
   search |-> IF Trim(searchQuery) # "" THEN Some(Trim(searchQuery)) ELSE Null,
   gender |-> IF genderFilter # "all" THEN Some(genderFilter) ELSE Null,
   department |-> IF departmentFilter # "all" THEN Some(departmentFilter) ELSE Null]

\* A request as issued: its number, what it asks, which code path issued it
\* (cause) and the render values its continuation closes over (ctx); and, as
\* observation, the kind and number of the last query-parameter change and
\* whether the store held a rate-limit signal at that moment.
RequestCtx(n, kind, params, arg, cause, ctx) ==
  [id |-> n, kind |-> kind, params |-> params, arg |-> arg, cause |-> cause,
   ctx |-> ctx, intent |-> lastIntent[1], change |-> nChanges,
   limited |-> rateLimitInfo # Null, ids |-> {}, conf |-> 0]
Request(n, kind, params, arg, cause) == RequestCtx(n, kind, params, arg, cause, Null)
\* a request issued by a handler that went through a confirmation: the ids of
\* its JSON body and, as observation, the number of the confirmation answered
ConfirmedRequest(n, kind, params, arg, ctx, ids, conf) ==
  [RequestCtx(n, kind, params, arg, "user", ctx) EXCEPT !.ids = ids, !.conf = conf]

Budget(k) == nReq + k <= reqCap

\* ------------------------------------------------------------ responses
Resp(status, json, users, total, detail, retry, depts) ==
  [status |-> status, json |-> json, users |-> users, total |-> total,
   detail |-> detail, retry_after |-> retry, departments |-> depts]

ListingBodies ==
  { [users |-> <<>>, total |-> Null],
    [users |-> <<RawUser(1, NoId, 0), RawUser(NoId, 2, 0)>>, total |-> Some(31)] }

\* <<detail.retry_after, retry_after>> of a 429 JSON body
RetryShapes == { <<Null, Null>>, <<Null, Some(1)>>, <<Some(1), Some(DefaultRetryAfter)>>,
                 <<Some(1), Null>>, <<Null, Some(0)>> }

\* status 0: no response at all (fetch rejects)
FailureStatuses == {0, 401, 500}

RateLimitResponses ==
  {Resp(429, FALSE, <<>>, Null, Null, Null, <<>>)} \cup
  {Resp(429, TRUE, <<>>, Null, sh[1], sh[2], <<>>) : sh \in RetryShapes}

FailureResponses == {Resp(st, TRUE, <<>>, Null, Null, Null, <<>>) : st \in FailureStatuses}

ListingResponses ==
  {Resp(200, TRUE, b.users, b.total, Null, Null, <<>>) : b \in ListingBodies}
    \cup RateLimitResponses \cup FailureResponses

DepartmentsResponses ==
  {Resp(200, TRUE, <<>>, Null, Null, Null, <<"Eng">>),
   Resp(429, TRUE, <<>>, Null, Null, Some(1), <<>>)} \cup FailureResponses

\* data.detail?.retry_after ?? data.retry_after ?? 60
retryAfterOf(data) ==
  IF data.detail # Null THEN data.detail[1]
  ELSE IF data.retry_after # Null THEN data.retry_after[1]
  ELSE DefaultRetryAfter

\* setRateLimitInfo({ retryAfter }) stores a new object each time: gen tells
\* it from the object the last render saw
NewGen == IF rateLimitInfo # Null THEN 1 - rateLimitInfo[1].gen ELSE 0

\* handleFetch: "limited" (signal installed, 'Rate limit exceeded' thrown),
\* "thrown" (fetch rejected, or response.json() rejected on the 429 body),
\* "returned" (the response is handed to the caller)
handleFetch(res) ==
  IF res.status = 0 THEN "thrown"
  ELSE IF res.status = 429 THEN (IF res.json THEN "limited" ELSE "thrown")
  ELSE "returned"

Notice(type, text) == [type |-> type, text |-> text]

\* ------------------------------------------------------------ effects
\* dependency lists of the App effects, as values of the current render
\* the listing dependency list without the search text
FetchDepsNoSearch == <<currentPage, departmentFilter, genderFilter, isLoggedIn,
                       sortBy, sortOrder>>

FetchDeps == <<currentPage, departmentFilter, genderFilter, isLoggedIn,
               searchQuery, sortBy, sortOrder>>
\* the page-reset dependency list without the sort direction
ResetDepsNoSortOrder == <<departmentFilter, genderFilter, searchQuery, sortBy>>

ResetDeps == <<departmentFilter, genderFilter, searchQuery, sortBy, sortOrder>>

RlDeps == <<bulkMode, isLoggedIn, isModalOpen, rateLimitInfo, showCreateForm>>

\* a retry timeout that checks no blocking view
RetryNeverBlocked == FALSE

\* showCreateForm || isModalOpen || bulkMode, read by the retry timeout
RetryBlocked == showCreateForm \/ isModalOpen \/ bulkMode

\* the retry effect arms a timeout: rateLimitInfo?.retryAfter truthy, logged in
RetryArmed == rateLimitInfo # Null /\ rateLimitInfo[1].retryAfter # 0 /\ isLoggedIn

\* a creation form, detail modal or bulk mode is open (observation)
BlockingOpen == showCreateForm \/ isModalOpen \/ bulkMode

\* ------------------------------------------------------------ initial state
\* the in-memory state of a freshly loaded page; the useState initialisers of
\* isLoggedIn and currentBackend read the browser storage
FreshPage ==
  /\ items = <<>> /\ departments = <<>> /\ searchQuery = ""
  /\ genderFilter = "all" /\ departmentFilter = "all" /\ selectedUsers = {}
  /\ bulkMode = FALSE /\ currentPage = 1 /\ totalUsers = 0
  /\ sortBy = "firstName" /\ sortOrder = "asc" /\ isLoading = FALSE
  /\ rateLimitInfo = Null
  /\ isLoggedIn = sessionLoggedIn /\ selectedUser = Null /\ isModalOpen = FALSE
  /\ recentUsers = <<>> /\ showCreateForm = FALSE
  /\ currentBackend = (IF lsBackend = "" THEN "node" ELSE lsBackend)
  /\ confirmDialog = Null
  /\ mounted = FALSE /\ dirty = FALSE /\ fetchDeps = Null /\ resetDeps = Null
  /\ rlDeps = Null /\ refreshTimer = Null /\ toastLeft = Null
  /\ inflight = {} /\ nReq = 0 /\ notifications = <<>>
  /\ timeoutRefs = {} /\ timeouts = {} /\ lastId = 0 /\ sameMs = FALSE /\ nShown = 0
  /\ lastIntent = <<"none", 1>> /\ nChanges = 0
  /\ sigFate = "none" /\ sigRetries = 0
  /\ showDeletedPanel = FALSE /\ importPreview = Null /\ pendingImportFile = Null
  /\ deletedUsers = <<>> /\ loading = FALSE /\ selectedDeleted = {}
  /\ panelBulkMode = FALSE /\ panelConfirm = Null /\ nConf = 0
  /\ submitSuccess = FALSE

Init ==
  /\ sessionLoggedIn = FALSE
  /\ lsBackend = ""
  /\ lsRecents = [k \in RecentKeys |-> Missing]
  /\ FreshPage /\ shown = Null
  /\ normIn = Null /\ normOut = Null /\ bulkScope = "list"
  /\ recOps = 0
  /\ reqCap = MaxReq
  /\ ev = <<"Init">>

\* window.location.reload(): every in-memory value is lost, storage stays
\* (the caller sets sessionLoggedIn' and lsBackend' first)
Reload ==
  /\ items' = <<>> /\ departments' = <<>> /\ searchQuery' = ""
  /\ genderFilter' = "all" /\ departmentFilter' = "all" /\ selectedUsers' = {}
  /\ bulkMode' = FALSE /\ currentPage' = 1 /\ totalUsers' = 0
  /\ sortBy' = "firstName" /\ sortOrder' = "asc" /\ isLoading' = FALSE
  /\ rateLimitInfo' = Null
  /\ isLoggedIn' = sessionLoggedIn' /\ selectedUser' = Null /\ isModalOpen' = FALSE
  /\ recentUsers' = <<>> /\ showCreateForm' = FALSE
  /\ currentBackend' = (IF lsBackend' = "" THEN "node" ELSE lsBackend')
  /\ confirmDialog' = Null
  /\ mounted' = FALSE /\ dirty' = FALSE /\ fetchDeps' = Null /\ resetDeps' = Null
  /\ rlDeps' = Null /\ refreshTimer' = Null /\ toastLeft' = Null
  /\ inflight' = {} /\ nReq' = 0 /\ notifications' = <<>>
  /\ timeoutRefs' = {} /\ timeouts' = {} /\ lastId' = 0 /\ sameMs' = FALSE
  /\ nShown' = 0
  /\ lastIntent' = <<"none", 1>> /\ nChanges' = 0
  /\ shown' = IF shown = Null THEN Null ELSE NothingShown
  /\ sigFate' = "none" /\ sigRetries' = 0
  /\ showDeletedPanel' = FALSE /\ importPreview' = Null /\ pendingImportFile' = Null
  /\ deletedUsers' = <<>> /\ loading' = FALSE /\ selectedDeleted' = {}
  /\ panelBulkMode' = FALSE /\ panelConfirm' = Null /\ nConf' = 0
  /\ submitSuccess' = FALSE

\* ------------------------------------------------------------ mount
\* First render of App and its mount effects, in declaration order.
\* the usersSlice state as one record
StoreState ==
  [items |-> items, departments |-> departments, searchQuery |-> searchQuery,
   genderFilter |-> genderFilter, departmentFilter |-> departmentFilter,
   selectedUsers |-> selectedUsers, bulkMode |-> bulkMode, currentPage |-> currentPage,
   totalUsers |-> totalUsers, sortBy |-> sortBy, sortOrder |-> sortOrder,
   isLoading |-> isLoading, rateLimitInfo |-> rateLimitInfo]

\* the list emptied, the total left as it was
clearUsersKeepsTotal(state) == [state EXCEPT !.items = <<>>]

\* usersSlice.clearUsers
clearUsers(state) == [state EXCEPT !.items = <<>>, !.totalUsers = 0]

Mount ==
  LET stored == lsRecents[getRecentViewedKey(currentBackend)]
  IN
  /\ UNCHANGED <<recOps, reqCap, extVars>>
  /\ ~mounted
  /\ Budget(2)
  /\ mounted' = TRUE
  /\ lsBackend' = currentBackend
  \* listing effect: clearUsers, or fetchUsers; then fetchDepartments
  /\ inflight' = IF isLoggedIn
                 THEN {Request(1, "list", ListParams, NoId, "effect"),
                       Request(2, "departments", NoParams, NoId, "effect")}
                 ELSE {}
  /\ nReq' = IF isLoggedIn THEN 2 ELSE 0
  /\ isLoading' = isLoggedIn
  \* loadRecentViewed
  /\ recentUsers' = IF ParseThrows(stored) THEN <<>> ELSE ParseOrEmpty(stored)
  /\ fetchDeps' = Some(FetchDeps)
  /\ resetDeps' = Some(ResetDeps)
  /\ rlDeps' = Some(RlDeps)
  /\ dirty' = TRUE
  /\ ev' = <<"Mount">>
  /\ items' = IF isLoggedIn THEN items ELSE clearUsers(StoreState).items
  /\ totalUsers' = IF isLoggedIn THEN totalUsers ELSE clearUsers(StoreState).totalUsers
  /\ UNCHANGED <<departments, searchQuery, genderFilter, departmentFilter,
                 selectedUsers, bulkMode, currentPage, sortBy, sortOrder,
                 rateLimitInfo, isLoggedIn, currentBackend, selectedUser, isModalOpen,
                 showCreateForm, confirmDialog, sessionLoggedIn, lsRecents,
                 refreshTimer, toastLeft, notifications, paramObs, sigObs>>

\* ------------------------------------------------------------ commit
\* Re-render of App with the effects whose dependencies changed:
\* RateLimitToast (child) first, then the retry effect, the listing effect
\* and the page-reset effect.
Commit ==
  LET rlChanged == rlDeps # Some(RlDeps)
      fetchChanged == fetchDeps # Some(FetchDeps)
      resetChanged == resetDeps # Some(ResetDeps)
      toastMounts == rateLimitInfo # Null /\ toastLeft = Null
      \* a toast mounted with timeLeft <= 0 calls onClose() in its effect
      toastCloses == toastMounts /\ rateLimitInfo[1].retryAfter <= 0
      fetches == fetchChanged /\ isLoggedIn
  IN
  /\ UNCHANGED <<recOps, reqCap, extVars>>
  /\ mounted /\ dirty
  /\ fetches => Budget(1)
  /\ toastLeft' = IF rateLimitInfo = Null THEN Null
                  ELSE IF toastLeft = Null THEN Some(rateLimitInfo[1].retryAfter)
                  ELSE toastLeft
  /\ refreshTimer' = IF ~rlChanged THEN refreshTimer
                     ELSE IF RetryArmed
                          THEN Some([left |-> rateLimitInfo[1].retryAfter,
                                     blocked |-> RetryBlocked])
                          ELSE Null
  /\ rlDeps' = Some(RlDeps)
  /\ fetchDeps' = Some(FetchDeps)
  /\ resetDeps' = Some(ResetDeps)
  \* the toast's effects run before App's: a signal it closes is gone by then
  /\ inflight' = IF fetches
                 THEN inflight \cup
                        {[Request(nReq + 1, "list", ListParams, NoId, "effect")
                            EXCEPT !.limited = rateLimitInfo # Null /\ ~toastCloses]}
                 ELSE inflight
  /\ nReq' = IF fetches THEN nReq + 1 ELSE nReq
  /\ isLoading' = IF fetches THEN TRUE ELSE isLoading
  /\ items' = IF fetchChanged /\ ~isLoggedIn THEN clearUsers(StoreState).items ELSE items
  /\ totalUsers' = IF fetchChanged /\ ~isLoggedIn THEN clearUsers(StoreState).totalUsers
                   ELSE totalUsers
  /\ currentPage' = IF resetChanged THEN 1 ELSE currentPage
  /\ rateLimitInfo' = IF toastCloses THEN Null ELSE rateLimitInfo
  /\ sigFate' = IF toastCloses THEN "zero" ELSE sigFate
  /\ ev' = <<"Commit">>
  /\ UNCHANGED <<departments, searchQuery, genderFilter, departmentFilter,
                 selectedUsers, bulkMode, sortBy, sortOrder, appVars, browserVars,
                 mounted, notifications, paramObs, sigRetries>>
  /\ dirty' = (View' # View)

\* ------------------------------------------------------------ user intents
\* the controls of the signed-in view can be used: the view is rendered and
\* neither the Deleted Users panel nor the import review lies over it
CanInteract == mounted /\ isLoggedIn /\ ~dirty /\ ~showDeletedPanel
               /\ importPreview = Null

\* observation of a query-parameter change
Changed(kind) ==
  /\ lastIntent' = <<kind, currentPage>> /\ nChanges' = nChanges + 1
  /\ UNCHANGED shown

handleSearchQueryChange(value) ==
  /\ UNCHANGED <<recOps, reqCap, extVars>>
  /\ CanInteract /\ Budget(2)
  /\ value # searchQuery
  /\ searchQuery' = value
  /\ Changed("filter") /\ ev' = <<"handleSearchQueryChange">> /\ dirty' = TRUE
  /\ UNCHANGED <<items, departments, genderFilter, departmentFilter, selectedUsers,
                 bulkMode, currentPage, totalUsers, sortBy, sortOrder, isLoading,
                 rateLimitInfo, appVars, browserVars, reactVars, netVars,
                 notifications, sigObs>>

handleGenderFilterChange(value) ==
  /\ UNCHANGED <<recOps, reqCap, extVars>>
  /\ CanInteract /\ Budget(2)
  /\ value # genderFilter
  /\ genderFilter' = value
  /\ Changed("filter") /\ ev' = <<"handleGenderFilterChange">> /\ dirty' = TRUE
  /\ UNCHANGED <<items, departments, searchQuery, departmentFilter, selectedUsers,
                 bulkMode, currentPage, totalUsers, sortBy, sortOrder, isLoading,
                 rateLimitInfo, appVars, browserVars, reactVars, netVars,
                 notifications, sigObs>>

handleDepartmentFilterChange(value) ==
  /\ UNCHANGED <<recOps, reqCap, extVars>>
  /\ CanInteract /\ Budget(2)
  /\ value # departmentFilter
  /\ departmentFilter' = value
  /\ Changed("filter") /\ ev' = <<"handleDepartmentFilterChange">> /\ dirty' = TRUE
  /\ UNCHANGED <<items, departments, searchQuery, genderFilter, selectedUsers,
                 bulkMode, currentPage, totalUsers, sortBy, sortOrder, isLoading,
                 rateLimitInfo, appVars, browserVars, reactVars, netVars,
                 notifications, sigObs>>

handleSortByChange(value) ==
  /\ UNCHANGED <<recOps, reqCap, extVars>>
  /\ CanInteract /\ Budget(2)
  /\ value # sortBy
  /\ sortBy' = value
  /\ Changed("filter") /\ ev' = <<"handleSortByChange">> /\ dirty' = TRUE
  /\ UNCHANGED <<items, departments, searchQuery, genderFilter, departmentFilter,
                 selectedUsers, bulkMode, currentPage, totalUsers, sortOrder, isLoading,
                 rateLimitInfo, appVars, browserVars, reactVars, netVars,
                 notifications, sigObs>>

handleSortOrderChange(value) ==
  /\ UNCHANGED <<recOps, reqCap, extVars>>
  /\ CanInteract /\ Budget(2)
  /\ value # sortOrder
  /\ sortOrder' = value
  /\ Changed("filter") /\ ev' = <<"handleSortOrderChange">> /\ dirty' = TRUE
  /\ UNCHANGED <<items, departments, searchQuery, genderFilter, departmentFilter,
                 selectedUsers, bulkMode, currentPage, totalUsers, sortBy, isLoading,
                 rateLimitInfo, appVars, browserVars, reactVars, netVars,
                 notifications, sigObs>>

\* double Escape with neither the modal nor the create form open
resetFilters ==
  LET changes == <<searchQuery, genderFilter, departmentFilter>> # <<"", "all", "all">>
  IN
  /\ UNCHANGED <<recOps, reqCap, extVars>>
  /\ CanInteract /\ Budget(2)
  /\ ~isModalOpen /\ ~showCreateForm
  /\ searchQuery' = "" /\ genderFilter' = "all" /\ departmentFilter' = "all"
  /\ IF changes THEN Changed("filter") ELSE UNCHANGED paramObs
  /\ ev' = <<"resetFilters">> /\ dirty' = (dirty \/ changes)
  /\ UNCHANGED <<items, departments, selectedUsers, bulkMode, currentPage, totalUsers,
                 sortBy, sortOrder, isLoading, rateLimitInfo, appVars, browserVars,
                 reactVars, netVars, notifications, sigObs>>

PaginationShown == totalUsers > USERS_PER_PAGE

PreviousPage ==
  /\ UNCHANGED <<recOps, reqCap, extVars>>
  /\ CanInteract /\ Budget(1)
  /\ PaginationShown /\ currentPage # 1
  /\ currentPage' = Max(1, currentPage - 1)
  /\ Changed("page") /\ ev' = <<"PreviousPage">> /\ dirty' = TRUE
  /\ UNCHANGED <<items, departments, searchQuery, genderFilter, departmentFilter,
                 selectedUsers, bulkMode, totalUsers, sortBy, sortOrder, isLoading,
                 rateLimitInfo, appVars, browserVars, reactVars, netVars,
                 notifications, sigObs>>

NextPage ==
  /\ UNCHANGED <<recOps, reqCap, extVars>>
  /\ CanInteract /\ Budget(1)
  /\ PaginationShown /\ ~(currentPage >= Ceil(totalUsers, USERS_PER_PAGE))
  /\ currentPage' = currentPage + 1
  /\ Changed("page") /\ ev' = <<"NextPage">> /\ dirty' = TRUE
  /\ UNCHANGED <<items, departments, searchQuery, genderFilter, departmentFilter,
                 selectedUsers, bulkMode, totalUsers, sortBy, sortOrder, isLoading,
                 rateLimitInfo, appVars, browserVars, reactVars, netVars,
                 notifications, sigObs>>

\* ------------------------------------------------------------ listing response
\* The rest of fetchUsers once the fetch of request r settles with res:
\* handleFetch, the ok check, setUsers/setTotalUsers, catch and finally.
fetchUsersSettled(r, res) ==
  LET hf == handleFetch(res)
      stored == hf = "returned" /\ res.status = 200 /\ res.json
      failed == hf = "thrown" \/ (hf = "returned" /\ ~stored)
      \* handleConfirmImport awaited this fetchUsers(): fetchDepartments() is next
      goesOn == r.cause = "import"
  IN
  /\ UNCHANGED <<recOps, reqCap, extVars>>
  /\ mounted /\ ~dirty
  /\ r \in inflight /\ r.kind = "list"
  /\ goesOn => Budget(1)
  /\ inflight' = IF goesOn
                 THEN (inflight \ {r}) \cup
                        {Request(nReq + 1, "departments", NoParams, NoId, "import")}
                 ELSE inflight \ {r}
  /\ nReq' = IF goesOn THEN nReq + 1 ELSE nReq
  /\ rateLimitInfo' = IF hf = "limited"
                      THEN Some([retryAfter |-> retryAfterOf(res), gen |-> NewGen])
                      ELSE rateLimitInfo
  /\ items' = IF stored THEN [k \in 1..Len(res.users) |-> normalizeUser(res.users[k])]
              ELSE items
  /\ totalUsers' = IF stored THEN (IF res.total # Null THEN res.total[1] ELSE 0)
                   ELSE totalUsers
  /\ notifications' = IF failed
                      THEN Append(notifications, Notice("error", "Failed to fetch users"))
                      ELSE notifications
  /\ isLoading' = FALSE
  /\ sigFate' = IF hf = "limited" THEN "live" ELSE sigFate
  /\ sigRetries' = IF hf = "limited" THEN 0 ELSE sigRetries
  /\ ev' = <<"fetchUsersSettled", res>>
  /\ shown' = IF shown = Null THEN Null
              ELSE [params |-> IF stored THEN r.params ELSE shown.params,
                    applied |-> stored,
                    ordered |-> shown.ordered
                                /\ \A q \in inflight : q.kind = "list" => r.id <= q.id]
  /\ UNCHANGED <<departments, searchQuery, genderFilter, departmentFilter, selectedUsers,
                 bulkMode, currentPage, sortBy, sortOrder, appVars, browserVars,
                 reactVars, lastIntent, nChanges>>
  /\ dirty' = (View' # View)

\* ------------------------------------------------------------ departments
\* The rest of fetchDepartments (plain fetch, not handleFetch).
fetchDepartmentsSettled(r, res) ==
  LET expired == res.status = 401
      ok == res.status = 200
  IN
  /\ UNCHANGED <<recOps, reqCap, givenVars>>
  /\ mounted /\ ~dirty
  /\ r \in inflight /\ r.kind = "departments"
  /\ ev' = <<"fetchDepartmentsSettled", res>>
  /\ IF expired
     THEN \* session expired: storage cleared, page reloaded
          /\ sessionLoggedIn' = FALSE
          /\ UNCHANGED <<lsBackend, lsRecents>>
          /\ Reload
     ELSE /\ inflight' = inflight \ {r}
          /\ departments' = IF ok /\ res.json THEN res.departments ELSE departments
          /\ notifications' =
               IF ok /\ res.json THEN notifications
               ELSE Append(notifications, Notice("error", "Failed to load departments"))
          /\ UNCHANGED <<items, searchQuery, genderFilter, departmentFilter,
                         selectedUsers, bulkMode, currentPage, totalUsers, sortBy,
                         sortOrder, isLoading, rateLimitInfo, appVars, browserVars,
                         reactVars, nReq, paramObs, sigObs, uiExt,
                         notifyVars>>
          /\ dirty' = (View' # View)

\* ------------------------------------------------------------ timers
TimerLefts ==
  (IF toastLeft # Null THEN {toastLeft[1]} ELSE {}) \cup
  (IF refreshTimer # Null THEN {refreshTimer[1].left} ELSE {})

\* d seconds pass with no timer due: up to the next expiry, or one second short
Tick(d) ==
  /\ UNCHANGED <<recOps, reqCap, extVars>>
  /\ mounted /\ ~dirty
  /\ TimerLefts # {}
  /\ \A t \in TimerLefts : t >= d
  /\ d >= 1
  /\ toastLeft' = IF toastLeft # Null THEN Some(toastLeft[1] - d) ELSE Null
  /\ refreshTimer' = IF refreshTimer # Null
                     THEN Some([refreshTimer[1] EXCEPT !.left = @ - d])
                     ELSE Null
  /\ ev' = <<"Tick">>
  /\ UNCHANGED <<storeVars, appVars, browserVars, mounted, fetchDeps, resetDeps,
                 rlDeps, dirty, netVars, notifications, paramObs, sigObs>>

TickChoices ==
  IF TimerLefts = {} THEN {}
  ELSE LET m == CHOOSE t \in TimerLefts : \A u \in TimerLefts : t <= u
       IN  {m, m - 1}

\* RateLimitToast: the countdown reaches zero and calls onClose()
ToastExpire ==
  /\ UNCHANGED <<recOps, reqCap, extVars>>
  /\ mounted /\ ~dirty
  /\ toastLeft = Some(0)
  /\ rateLimitInfo' = Null
  /\ sigFate' = IF BlockingOpen THEN "expiredBlocked" ELSE "expiredFree"
  /\ ev' = <<"ToastExpire">>
  /\ UNCHANGED <<items, departments, searchQuery, genderFilter, departmentFilter,
                 selectedUsers, bulkMode, currentPage, totalUsers, sortBy, sortOrder,
                 isLoading, appVars, browserVars, reactVars, netVars, notifications,
                 paramObs, sigRetries>>
  /\ dirty' = (View' # View)

\* RateLimitToast: the close button, before the countdown has run out
ToastClose ==
  /\ UNCHANGED <<recOps, reqCap, extVars>>
  /\ mounted /\ ~dirty
  /\ toastLeft # Null /\ toastLeft # Some(0)
  /\ rateLimitInfo' = Null
  /\ sigFate' = "closed"
  /\ ev' = <<"ToastClose">>
  /\ UNCHANGED <<items, departments, searchQuery, genderFilter, departmentFilter,
                 selectedUsers, bulkMode, currentPage, totalUsers, sortBy, sortOrder,
                 isLoading, appVars, browserVars, reactVars, netVars, notifications,
                 paramObs, sigRetries>>
  /\ dirty' = (View' # View)

\* the timeout armed by the retry effect fires
RetryTimeout ==
  LET refetch == ~refreshTimer[1].blocked
  IN
  /\ UNCHANGED <<recOps, reqCap, extVars>>
  /\ mounted /\ ~dirty
  /\ refreshTimer # Null /\ refreshTimer[1].left = 0
  /\ refetch => Budget(1)
  /\ rateLimitInfo' = Null
  /\ refreshTimer' = Null
  /\ inflight' = IF refetch
                 THEN inflight \cup {Request(nReq + 1, "list", ListParams, NoId, "retry")}
                 ELSE inflight
  /\ nReq' = IF refetch THEN nReq + 1 ELSE nReq
  /\ isLoading' = IF refetch THEN TRUE ELSE isLoading
  /\ sigFate' = IF BlockingOpen THEN "expiredBlocked" ELSE "expiredFree"
  /\ sigRetries' = IF refetch THEN sigRetries + 1 ELSE sigRetries
  /\ ev' = <<"RetryTimeout">>
  /\ UNCHANGED <<items, departments, searchQuery, genderFilter, departmentFilter,
                 selectedUsers, bulkMode, currentPage, totalUsers, sortBy, sortOrder,
                 appVars, browserVars, mounted, fetchDeps, resetDeps, rlDeps, toastLeft,
                 notifications, paramObs>>
  /\ dirty' = (View' # View)

\* ------------------------------------------------------------ blocking UI
OpenCreateForm ==
  /\ UNCHANGED <<recOps, reqCap, importVars, panelVars, nConf, givenVars, notifyVars>>
  /\ submitSuccess' = FALSE
  /\ CanInteract /\ ~showCreateForm
  /\ showCreateForm' = TRUE
  /\ ev' = <<"OpenCreateForm">> /\ dirty' = TRUE
  /\ UNCHANGED <<storeVars, isLoggedIn, selectedUser, isModalOpen, recentUsers,
                 currentBackend, confirmDialog, browserVars, reactVars, netVars,
                 notifications, paramObs, sigObs>>

CloseCreateForm ==
  /\ UNCHANGED <<recOps, reqCap, importVars, panelVars, nConf, givenVars, notifyVars>>
  /\ submitSuccess' = FALSE
  /\ CanInteract /\ showCreateForm
  /\ showCreateForm' = FALSE
  /\ ev' = <<"CloseCreateForm">> /\ dirty' = TRUE
  /\ UNCHANGED <<storeVars, isLoggedIn, selectedUser, isModalOpen, recentUsers,
                 currentBackend, confirmDialog, browserVars, reactVars, netVars,
                 notifications, paramObs, sigObs>>

\* reducers of the selection
clearSelectedUsersKept == selectedUsers

clearSelectedUsers == {}

toggleUserSelectionAction(userId) ==
  IF userId \in selectedUsers THEN selectedUsers \ {userId}
  ELSE selectedUsers \cup {userId}

\* the Bulk Select / Exit Bulk Mode button
ToggleBulkMode ==
  /\ UNCHANGED <<recOps, reqCap, extVars>>
  /\ CanInteract /\ bulkScope = "list"
  /\ bulkMode' = ~bulkMode
  /\ selectedUsers' = clearSelectedUsers
  /\ ev' = <<"ToggleBulkMode">> /\ dirty' = TRUE
  /\ UNCHANGED <<items, departments, searchQuery, genderFilter, departmentFilter,
                 currentPage, totalUsers, sortBy, sortOrder, isLoading, rateLimitInfo,
                 appVars, browserVars, reactVars, netVars, notifications, paramObs,
                 sigObs>>

closeModal ==
  /\ UNCHANGED <<recOps, reqCap, extVars>>
  /\ CanInteract /\ isModalOpen
  /\ isModalOpen' = FALSE /\ selectedUser' = Null
  /\ ev' = <<"closeModal">> /\ dirty' = TRUE
  /\ UNCHANGED <<storeVars, isLoggedIn, recentUsers, showCreateForm, currentBackend,
                 confirmDialog, browserVars, reactVars, netVars, notifications,
                 paramObs, sigObs>>

\* ------------------------------------------------------------ recently viewed
\* the entry trackRecentlyViewed builds for a user
RecentEntry(uid, rev) == [id |-> uid, _id |-> uid, rev |-> rev, extra |-> FALSE]

\* recording without the cut to ten entries
TrackItemsUncut(list, latest) ==
  <<latest>> \o SelectSeq(list, LAMBDA u : u.id # latest.id /\ u._id # latest.id)

\* items.filter(...); items.unshift(latest); slice(0, 10) when longer than 10
TrackItems(list, latest) ==
  LET kept == SelectSeq(list, LAMBDA u : u.id # latest.id /\ u._id # latest.id)
      grown == <<latest>> \o kept
  IN  IF Len(grown) > RecentCap THEN Slice0(grown, RecentCap) ELSE grown

\* trackRecentlyViewed returns early: the user has no id
TrackSkips(user) == user._id = NoId
\* trackRecentlyViewed throws: JSON.parse rejects the stored value
TrackThrows(user) ==
  ~TrackSkips(user) /\ ParseThrows(lsRecents[getRecentViewedKey(currentBackend)])

\* the writes of trackRecentlyViewed (when it neither skips nor throws)
trackRecentlyViewed(user) ==
  LET key == getRecentViewedKey(currentBackend)
      next == TrackItems(ParseOrEmpty(lsRecents[key]), RecentEntry(user._id, user.rev))
  IN  IF TrackSkips(user)
      THEN UNCHANGED <<recentUsers, lsRecents>>
      ELSE /\ recentUsers' = next
           /\ lsRecents' = [lsRecents EXCEPT ![key] = JSONstringify(next)]

\* click on a user card of the grid
handleUserClick(user) ==
  /\ recOps < MaxRecOps /\ recOps' = recOps + 1 /\ UNCHANGED <<reqCap, extVars>>
  /\ CanInteract /\ ~isModalOpen /\ ~showCreateForm /\ confirmDialog = Null
  /\ ~showDeletedPanel /\ importPreview = Null
  /\ ~isLoading
  /\ user \in SeqToSet(items)
  /\ IF TrackThrows(user)
     THEN \* the exception leaves the handler before setSelectedUser
          /\ ev' = <<"handleUserClick", "throws", user._id>>
          /\ UNCHANGED <<appVars, lsRecents, dirty>>
     ELSE /\ trackRecentlyViewed(user)
          /\ selectedUser' = Some(user) /\ isModalOpen' = TRUE
          /\ ev' = <<"handleUserClick", "done", user._id>>
          /\ dirty' = TRUE
          /\ UNCHANGED <<isLoggedIn, showCreateForm, currentBackend, confirmDialog>>
  /\ UNCHANGED <<storeVars, sessionLoggedIn, lsBackend, reactVars, netVars,
                 notifications, paramObs, sigObs>>

\* click on a card of the recently viewed strip
handleRecentUserClick(entry) ==
  LET hits == {k \in 1..Len(items) : items[k]._id = entry.id \/ items[k]._id = entry._id}
      fullUser == items[CHOOSE k \in hits : \A j \in hits : k <= j]
  IN
  /\ recOps < MaxRecOps /\ recOps' = recOps + 1 /\ UNCHANGED <<reqCap, extVars>>
  /\ CanInteract /\ ~isModalOpen /\ ~showCreateForm /\ confirmDialog = Null
  /\ entry \in SeqToSet(recentUsers)
  /\ IF TrackThrows(entry)
     THEN /\ ev' = <<"handleRecentUserClick", "throws", entry._id>>
          /\ UNCHANGED <<appVars, lsRecents, dirty>>
     ELSE /\ trackRecentlyViewed(entry)
          /\ IF hits # {}
             THEN selectedUser' = Some(fullUser) /\ isModalOpen' = TRUE
             ELSE UNCHANGED <<selectedUser, isModalOpen>>
          /\ ev' = <<"handleRecentUserClick", "done", entry._id>>
          /\ dirty' = TRUE
          /\ UNCHANGED <<isLoggedIn, showCreateForm, currentBackend, confirmDialog>>
  /\ UNCHANGED <<storeVars, sessionLoggedIn, lsBackend, reactVars, netVars,
                 notifications, paramObs, sigObs>>

\* the Clear button of the strip
clearRecentViewed ==
  /\ recOps < MaxRecOps /\ recOps' = recOps + 1 /\ UNCHANGED <<reqCap, extVars>>
  /\ CanInteract /\ ~showCreateForm /\ confirmDialog = Null
  /\ recentUsers # <<>>
  /\ lsRecents' = [lsRecents EXCEPT ![getRecentViewedKey(currentBackend)] = Missing]
  /\ recentUsers' = <<>>
  /\ ev' = <<"clearRecentViewed">> /\ dirty' = TRUE
  /\ UNCHANGED <<storeVars, isLoggedIn, selectedUser, isModalOpen, showCreateForm,
                 currentBackend, confirmDialog, sessionLoggedIn, lsBackend, reactVars,
                 netVars, notifications, paramObs, sigObs>>

\* ------------------------------------------------------------ confirmation
\* requestConfirmation: setConfirmDialog stores the new dialog, whatever the
\* slot held; the promise of a dialog that was pending stays unresolved
requestConfirmationKeepsPending(slot, dialog) == IF slot # Null THEN slot ELSE Some(dialog)

requestConfirmation(slot, dialog) == Some(dialog)

\* selectedUsers.length === 0 (selectedDeleted.length === 0 in the panel)
NothingSelectedNever(selection) == FALSE

NothingSelected(selection) == selection = {}

\* if (!confirmed) return;
ProceedsAlways(confirmed) == TRUE

Proceeds(confirmed) == confirmed

\* what the awaiting handler keeps in its closure while the dialog is open
Dialog(kind, id, selected, ids, params, conf) ==
  [kind |-> kind, id |-> id, selected |-> selected, ids |-> ids, params |-> params,
   conf |-> conf]

\* ------------------------------------------------------------ bulk selection
\* the card grid is rendered (no skeletons) and nothing lies over it
GridShown == ~isLoading /\ ~isModalOpen /\ confirmDialog = Null /\ ~showDeletedPanel
             /\ importPreview = Null /\ ~showCreateForm

\* the checkbox of a card, rendered in bulk mode only
toggleUserSelection(userId) ==
  /\ UNCHANGED <<recOps, reqCap, extVars>>
  /\ CanInteract /\ bulkMode /\ GridShown
  /\ \E u \in SeqToSet(items) : u._id = userId
  /\ selectedUsers' = toggleUserSelectionAction(userId)
  /\ ev' = <<"toggleUserSelection", userId>> /\ dirty' = TRUE
  /\ UNCHANGED <<items, departments, searchQuery, genderFilter, departmentFilter,
                 bulkMode, currentPage, totalUsers, sortBy, sortOrder, isLoading,
                 rateLimitInfo, appVars, browserVars, reactVars, netVars, notifications,
                 paramObs, sigObs>>

\* Select All of the bulk action bar
selectAll ==
  /\ UNCHANGED <<recOps, reqCap, extVars>>
  /\ CanInteract /\ bulkMode /\ ~isModalOpen /\ confirmDialog = Null
  /\ ~showDeletedPanel /\ importPreview = Null
  /\ selectedUsers' = {items[k]._id : k \in 1..Len(items)}
  /\ ev' = <<"selectAll">> /\ dirty' = TRUE
  /\ UNCHANGED <<items, departments, searchQuery, genderFilter, departmentFilter,
                 bulkMode, currentPage, totalUsers, sortBy, sortOrder, isLoading,
                 rateLimitInfo, appVars, browserVars, reactVars, netVars, notifications,
                 paramObs, sigObs>>

\* Clear Selection of the bulk action bar
deselectAll ==
  /\ UNCHANGED <<recOps, reqCap, extVars>>
  /\ CanInteract /\ bulkMode /\ ~isModalOpen /\ confirmDialog = Null
  /\ ~showDeletedPanel /\ importPreview = Null
  /\ selectedUsers' = clearSelectedUsers
  /\ ev' = <<"deselectAll">> /\ dirty' = TRUE
  /\ UNCHANGED <<items, departments, searchQuery, genderFilter, departmentFilter,
                 bulkMode, currentPage, totalUsers, sortBy, sortOrder, isLoading,
                 rateLimitInfo, appVars, browserVars, reactVars, netVars, notifications,
                 paramObs, sigObs>>

\* Cancel of the bulk action bar
CancelBulk ==
  /\ UNCHANGED <<recOps, reqCap, extVars>>
  /\ CanInteract /\ bulkMode /\ ~isModalOpen /\ confirmDialog = Null
  /\ ~showDeletedPanel /\ importPreview = Null
  /\ bulkMode' = FALSE
  /\ selectedUsers' = clearSelectedUsers
  /\ ev' = <<"CancelBulk", selectedUsers>> /\ dirty' = TRUE
  /\ UNCHANGED <<items, departments, searchQuery, genderFilter, departmentFilter,
                 currentPage, totalUsers, sortBy, sortOrder, isLoading,
                 rateLimitInfo, appVars, browserVars, reactVars, netVars, notifications,
                 paramObs, sigObs>>

\* Delete Selected: bulkDeleteUsers up to the confirmation. The button is
\* disabled while the selection is empty; the handler has its own check of
\* that case. The button keeps the focus while the dialog lies over it, so
\* it can be pressed again from the keyboard.
bulkDeleteUsers ==
  /\ recOps < MaxRecOps /\ recOps' = recOps + 1
  /\ UNCHANGED <<reqCap, submitSuccess, importVars, panelVars, givenVars, notifyVars>>
  /\ CanInteract /\ bulkMode /\ ~isModalOpen
  /\ ~showDeletedPanel /\ importPreview = Null
  /\ confirmDialog # Null => confirmDialog[1].kind = "bulk"
  /\ IF NothingSelected(selectedUsers)
     THEN /\ notifications' = Append(notifications, Notice("warning", "No users selected"))
          /\ UNCHANGED <<confirmDialog, nConf>>
     ELSE /\ confirmDialog' =
               requestConfirmation(confirmDialog,
                 Dialog("bulk", NoId, Null, selectedUsers, ListParams, nConf + 1))
          /\ nConf' = nConf + 1
          /\ UNCHANGED notifications
  /\ ev' = <<"bulkDeleteUsers", selectedUsers, confirmDialog # Null>> /\ dirty' = TRUE
  /\ UNCHANGED <<storeVars, isLoggedIn, selectedUser, isModalOpen, recentUsers,
                 showCreateForm, currentBackend, browserVars, reactVars, netVars,
                 paramObs, sigObs>>

\* ------------------------------------------------------------ delete
\* the Delete button of the detail modal: deleteUser up to the confirmation
\* (the button keeps the focus while the dialog lies over it)
deleteUser ==
  LET id == selectedUser[1]._id
  IN
  /\ recOps < MaxRecOps /\ recOps' = recOps + 1
  /\ UNCHANGED <<reqCap, submitSuccess, importVars, panelVars, givenVars, notifyVars>>
  /\ CanInteract /\ isModalOpen /\ selectedUser # Null
  /\ confirmDialog # Null => confirmDialog[1].kind = "delete"
  /\ IF id = NoId
     THEN /\ notifications' = Append(notifications, Notice("error", "Invalid user ID"))
          /\ UNCHANGED <<confirmDialog, nConf>>
     ELSE /\ confirmDialog' =
               requestConfirmation(confirmDialog,
                 Dialog("delete", id, selectedUser, {}, NoParams, nConf + 1))
          /\ nConf' = nConf + 1
          /\ UNCHANGED notifications
  /\ ev' = <<"deleteUser", confirmDialog # Null>> /\ dirty' = TRUE
  /\ UNCHANGED <<storeVars, isLoggedIn, selectedUser, isModalOpen, recentUsers,
                 showCreateForm, currentBackend, browserVars, reactVars, netVars,
                 paramObs, sigObs>>

\* a button of the confirmation dialog: the dialog closes and the awaiting
\* handler goes on; deleteUser issues its DELETE request, bulkDeleteUsers its
\* POST /api/users/bulk-delete with the ids of its closure
ConfirmDialogResolve(confirmed) ==
  LET d == confirmDialog[1]
      sends == Proceeds(confirmed)
  IN
  /\ UNCHANGED <<recOps, reqCap, extVars>>
  /\ CanInteract /\ confirmDialog # Null
  /\ sends => Budget(1)
  /\ confirmDialog' = Null
  /\ inflight' = IF ~sends THEN inflight
                 ELSE IF d.kind = "delete"
                 THEN inflight \cup
                        {ConfirmedRequest(nReq + 1, "delete", NoParams, d.id, d.selected,
                                          {}, d.conf)}
                 ELSE inflight \cup
                        {ConfirmedRequest(nReq + 1, "bulk-delete", d.params, NoId, Null,
                                          d.ids, d.conf)}
  /\ nReq' = IF sends THEN nReq + 1 ELSE nReq
  /\ ev' = <<"ConfirmDialogResolve", confirmed, d.kind>> /\ dirty' = TRUE
  /\ UNCHANGED <<storeVars, isLoggedIn, selectedUser, isModalOpen, recentUsers,
                 showCreateForm, currentBackend, browserVars, reactVars,
                 notifications, paramObs, sigObs>>

\* res.ok of the statuses the gateway answers with here
resOkAlways(res) == TRUE

resOk(res) == res.status >= 200 /\ res.status <= 299

BulkResponses ==
  {Resp(200, TRUE, <<>>, Null, Null, Null, <<>>),
   Resp(500, TRUE, <<>>, Null, Null, Null, <<>>),
   Resp(0, FALSE, <<>>, Null, Null, Null, <<>>)}

\* the rest of bulkDeleteUsers once its request settles: on success the
\* notification, clearSelectedUsers, setBulkMode(false) and fetchUsers() of
\* the render the handler was created in
bulkDeleteSettled(r, res) ==
  LET ok == resOk(res)
  IN
  /\ UNCHANGED <<recOps, reqCap, extVars>>
  /\ mounted /\ ~dirty
  /\ r \in inflight /\ r.kind = "bulk-delete"
  /\ ok => Budget(1)
  /\ inflight' = IF ok
                 THEN (inflight \ {r}) \cup
                        {Request(nReq + 1, "list", r.params, NoId, "bulk")}
                 ELSE inflight \ {r}
  /\ nReq' = IF ok THEN nReq + 1 ELSE nReq
  /\ selectedUsers' = IF ok THEN clearSelectedUsers ELSE selectedUsers
  /\ bulkMode' = IF ok THEN FALSE ELSE bulkMode
  /\ isLoading' = IF ok THEN TRUE ELSE isLoading
  /\ notifications' =
       IF ok THEN Append(notifications, Notice("success", "user(s) deleted successfully!"))
       ELSE Append(notifications, Notice("error", "Failed to bulk delete users"))
  /\ ev' = <<"bulkDeleteSettled", res, r.conf>>
  /\ UNCHANGED <<items, departments, searchQuery, genderFilter, departmentFilter,
                 currentPage, totalUsers, sortBy, sortOrder, rateLimitInfo, appVars,
                 browserVars, reactVars, paramObs, sigObs>>
  /\ dirty' = TRUE

\* prev.filter((user) => user.id !== id && user._id !== id)
RemoveRecent(list, id) == SelectSeq(list, LAMBDA u : u.id # id /\ u._id # id)

DeleteResponses ==
  {Resp(200, TRUE, <<>>, Null, Null, Null, <<>>),
   Resp(429, TRUE, <<>>, Null, Null, Some(1), <<>>)} \cup FailureResponses

\* the rest of deleteUser once its DELETE request settles
deleteUserSettled(r, res) ==
  LET ok == res.status = 200
      id == r.arg
      next == RemoveRecent(recentUsers, id)
      closes == r.ctx # Null /\ r.ctx[1]._id = id
  IN
  /\ UNCHANGED <<recOps, reqCap, extVars>>
  /\ mounted /\ ~dirty
  /\ r \in inflight /\ r.kind = "delete"
  /\ inflight' = inflight \ {r}
  /\ items' = IF ok THEN SelectSeq(items, LAMBDA u : u._id # id) ELSE items
  /\ recentUsers' = IF ok THEN next ELSE recentUsers
  /\ lsRecents' = IF ok
                  THEN [lsRecents EXCEPT ![getRecentViewedKey(currentBackend)] =
                          JSONstringify(next)]
                  ELSE lsRecents
  /\ isModalOpen' = IF ok /\ closes THEN FALSE ELSE isModalOpen
  /\ selectedUser' = IF ok /\ closes THEN Null ELSE selectedUser
  /\ notifications' = IF ok THEN notifications
                      ELSE Append(notifications, Notice("error", "Failed to delete user"))
  /\ ev' = <<"deleteUserSettled", res>>
  /\ UNCHANGED <<departments, searchQuery, genderFilter, departmentFilter, selectedUsers,
                 bulkMode, currentPage, totalUsers, sortBy, sortOrder, isLoading,
                 rateLimitInfo, isLoggedIn, showCreateForm, currentBackend,
                 confirmDialog, sessionLoggedIn, lsBackend, reactVars, nReq,
                 paramObs, sigObs>>
  /\ dirty' = (View' # View)

\* ------------------------------------------------------------ update
\* UserModal.handleSubmit up to its PUT request
\* what a submitted form holds: a malformed email, a malformed phone, a gender
\* other than male or female, a blank name-like field, digits in a name-like
\* field, or nothing of the kind
FormStates == {"email", "phone", "gender", "blank", "digits", "valid"}

\* the three tests of handleCreateSubmit: emailRegex, phoneRegex, gender
CreateRejects(form) == form \in {"email", "phone", "gender"}

\* the tests of UserModal.handleSubmit on every editable field
EditRejects(form) == form # "valid"

UserModalSubmit(form) ==
  LET id == selectedUser[1]._id
  IN
  /\ recOps < MaxRecOps /\ recOps' = recOps + 1 /\ UNCHANGED <<reqCap, extVars>>
  /\ CanInteract /\ isModalOpen /\ selectedUser # Null /\ confirmDialog = Null
  /\ IF id = NoId
     THEN /\ notifications' =
               Append(notifications, Notice("error", "Missing user identifier"))
          /\ UNCHANGED netVars
     ELSE IF EditRejects(form)
     THEN /\ notifications' = Append(notifications, Notice("warning", form))
          /\ UNCHANGED netVars
     ELSE /\ Budget(2)
          /\ inflight' = inflight \cup {Request(nReq + 1, "update", NoParams, id, "user")}
          /\ nReq' = nReq + 1
          /\ UNCHANGED notifications
  /\ ev' = <<"UserModalSubmit", form>> /\ dirty' = (notifications' # notifications)
  /\ UNCHANGED <<storeVars, appVars, browserVars, reactVars, paramObs, sigObs>>

\* a PUT answer: the updated record, a body without id, or a failure
UpdateResponses(id) ==
  {Resp(200, TRUE, <<RawUser(id, NoId, 1)>>, Null, Null, Null, <<>>),
   Resp(200, FALSE, <<>>, Null, Null, Null, <<>>),
   Resp(429, TRUE, <<>>, Null, Null, Some(1), <<>>)} \cup FailureResponses

\* prev.map((user) => user.id === normalized._id ? {...user, ...normalized} : user)
MergeRecent(list, normalized) ==
  [k \in 1..Len(list) |->
     IF list[k].id = normalized._id
     THEN [id |-> normalized.id, _id |-> normalized._id, rev |-> normalized.rev,
           image |-> normalized.image, extra |-> TRUE]
     ELSE list[k]]

\* Array.prototype.findIndex, 0 for -1
FindIndex(list, id) ==
  LET hits == {k \in 1..Len(list) : list[k]._id = id}
  IN  IF hits = {} THEN 0 ELSE CHOOSE k \in hits : \A j \in hits : k <= j

\* usersSlice.updateUser
updateUser(list, user) ==
  LET index == FindIndex(list, user._id)
  IN  IF index # 0 THEN [list EXCEPT ![index] = user] ELSE list

\* the rest of UserModal.handleSubmit once the PUT settles, with
\* handleUserUpdated (onUpdate) up to its fetchDepartments request
UserModalSettled(r, res) ==
  LET ok == res.status = 200
      hasId == ok /\ Len(res.users) = 1
      normalized == normalizeUser(res.users[1])
      next == MergeRecent(recentUsers, normalized)
      text == IF ok THEN Notice("success", "User updated successfully!")
              ELSE IF res.status = 0 THEN Notice("error", "Network error")
              ELSE Notice("error", "Update failed")
  IN
  /\ UNCHANGED <<recOps, reqCap, extVars>>
  /\ mounted /\ ~dirty
  /\ r \in inflight /\ r.kind = "update"
  /\ notifications' = Append(notifications, text)
  /\ items' = IF hasId THEN updateUser(items, normalized) ELSE items
  /\ recentUsers' = IF hasId THEN next ELSE recentUsers
  /\ lsRecents' = IF hasId
                  THEN [lsRecents EXCEPT ![getRecentViewedKey(currentBackend)] =
                          JSONstringify(next)]
                  ELSE lsRecents
  /\ isModalOpen' = IF hasId THEN FALSE ELSE isModalOpen
  /\ selectedUser' = IF hasId THEN Null ELSE selectedUser
  /\ inflight' = (inflight \ {r}) \cup
       (IF hasId THEN {Request(nReq + 1, "departments", NoParams, NoId, "update")}
        ELSE {})
  /\ nReq' = IF hasId THEN nReq + 1 ELSE nReq
  /\ ev' = <<"UserModalSettled", res>>
  /\ UNCHANGED <<departments, searchQuery, genderFilter, departmentFilter, selectedUsers,
                 bulkMode, currentPage, totalUsers, sortBy, sortOrder, isLoading,
                 rateLimitInfo, isLoggedIn, showCreateForm, currentBackend,
                 confirmDialog, sessionLoggedIn, lsBackend, reactVars, paramObs, sigObs>>
  /\ dirty' = TRUE

\* ------------------------------------------------------------ session
\* Login form submitted: on success the flag is stored and the page reloads
signIn(ok) ==
  /\ UNCHANGED <<recOps, reqCap, givenVars>>
  /\ mounted /\ ~isLoggedIn /\ ~dirty
  /\ ev' = <<"signIn", ok>>
  /\ IF ok
     THEN /\ sessionLoggedIn' = TRUE
          /\ UNCHANGED <<lsBackend, lsRecents>>
          /\ Reload
     ELSE \* the catch of signIn: one error notification, nothing stored
          /\ Len(notifications) < MaxRecOps
          /\ notifications' =
               Append(notifications, Notice("error", "Invalid credentials or server error"))
          /\ dirty' = TRUE
          /\ UNCHANGED <<storeVars, appVars, browserVars, reactVars, netVars,
                         paramObs, sigObs, uiExt,
                         notifyVars>>

Logout ==
  /\ UNCHANGED <<recOps, reqCap, givenVars>>
  /\ CanInteract
  /\ sessionLoggedIn' = FALSE
  /\ UNCHANGED <<lsBackend, lsRecents>>
  /\ Reload
  /\ ev' = <<"Logout">>

\* the stored backend selection is changed and the page loaded again
SwitchBackend(b) ==
  /\ recOps < MaxRecOps /\ recOps' = recOps + 1 /\ UNCHANGED <<reqCap, givenVars>>
  /\ mounted /\ ~dirty
  /\ b # currentBackend
  /\ lsBackend' = b
  /\ UNCHANGED <<sessionLoggedIn, lsRecents>>
  /\ Reload
  /\ ev' = <<"SwitchBackend">>

\* ------------------------------------------------------------ deleted users panel
PanelInteract == mounted /\ isLoggedIn /\ ~dirty /\ showDeletedPanel

\* the rows of the panel are rendered and its dialog does not lie over them
RowsShown == ~loading /\ panelConfirm = Null

\* the Deleted Users button, and the effect of DeletedPanel that runs
\* fetchDeletedUsers when isOpen has become true
OpenDeletedPanel ==
  /\ UNCHANGED <<recOps, reqCap, submitSuccess, importVars, givenVars, notifyVars, nConf>>
  /\ CanInteract /\ ~isModalOpen /\ confirmDialog = Null /\ Budget(1)
  /\ bulkScope = "panel"
  /\ showDeletedPanel' = TRUE
  /\ loading' = TRUE
  /\ inflight' = inflight \cup {Request(nReq + 1, "deleted", NoParams, NoId, "effect")}
  /\ nReq' = nReq + 1
  /\ ev' = <<"OpenDeletedPanel">> /\ dirty' = TRUE
  /\ UNCHANGED <<storeVars, appVars, browserVars, reactVars, notifications, paramObs,
                 sigObs, deletedUsers, selectedDeleted, panelBulkMode, panelConfirm>>

\* onClose: the close button, a click beside the panel, the Escape key
CloseDeletedPanel ==
  /\ UNCHANGED <<recOps, reqCap, submitSuccess, importVars, givenVars, notifyVars, nConf>>
  /\ PanelInteract
  /\ showDeletedPanel' = FALSE
  /\ ev' = <<"CloseDeletedPanel">> /\ dirty' = TRUE
  /\ UNCHANGED <<storeVars, appVars, browserVars, reactVars, netVars, notifications,
                 paramObs, sigObs, deletedUsers, loading, selectedDeleted, panelBulkMode,
                 panelConfirm>>

DeletedResponses ==
  {Resp(200, TRUE, <<RawUser(3, NoId, 0), RawUser(NoId, 4, 0)>>, Null, Null, Null, <<>>),
   Resp(500, TRUE, <<>>, Null, Null, Null, <<>>)}

\* The rest of fetchDeletedUsers: setDeletedUsers(data.users ?? []) with the
\* records as the gateway sent them. A handler that awaited this fetch goes
\* on to onRestoreComplete: fetchUsersRef.current() and fetchDepartments().
fetchDeletedSettled(r, res) ==
  LET ok == res.status = 200 /\ res.json
      completes == r.cause = "complete"
      refetches == completes /\ isLoggedIn
  IN
  /\ UNCHANGED <<recOps, reqCap, submitSuccess, importVars, givenVars, notifyVars, nConf>>
  /\ mounted /\ ~dirty
  /\ r \in inflight /\ r.kind = "deleted"
  /\ completes => Budget(2)
  /\ deletedUsers' = IF ok THEN res.users ELSE deletedUsers
  /\ loading' = FALSE
  /\ notifications' =
       IF ok THEN notifications
       ELSE Append(notifications, Notice("error", "Failed to fetch deleted users"))
  /\ inflight' = IF completes
                 THEN (inflight \ {r}) \cup
                        ((IF refetches
                          THEN {Request(nReq + 1, "list", ListParams, NoId, "complete")}
                          ELSE {})
                         \cup {Request(nReq + 2, "departments", NoParams, NoId, "complete")})
                 ELSE inflight \ {r}
  /\ nReq' = IF completes THEN nReq + 2 ELSE nReq
  /\ isLoading' = IF refetches THEN TRUE ELSE isLoading
  /\ items' = IF completes /\ ~isLoggedIn THEN <<>> ELSE items
  /\ totalUsers' = IF completes /\ ~isLoggedIn THEN 0 ELSE totalUsers
  /\ ev' = <<"fetchDeletedSettled", res>>
  /\ UNCHANGED <<departments, searchQuery, genderFilter, departmentFilter, selectedUsers,
                 bulkMode, currentPage, sortBy, sortOrder, rateLimitInfo, appVars,
                 browserVars, reactVars, paramObs, sigObs, showDeletedPanel,
                 selectedDeleted, panelBulkMode, panelConfirm>>
  /\ dirty' = TRUE

\* the Bulk Select / Exit Bulk Mode button of the panel
PanelToggleBulkMode ==
  /\ UNCHANGED <<recOps, reqCap, submitSuccess, importVars, givenVars, notifyVars, nConf>>
  /\ PanelInteract /\ panelConfirm = Null
  /\ panelBulkMode' = ~panelBulkMode
  /\ selectedDeleted' = {}
  /\ ev' = <<"PanelToggleBulkMode", selectedDeleted>> /\ dirty' = TRUE
  /\ UNCHANGED <<storeVars, appVars, browserVars, reactVars, netVars, notifications,
                 paramObs, sigObs, showDeletedPanel, deletedUsers, loading, panelConfirm>>

\* the checkbox of a row, rendered in bulk mode only
toggleSelection(userId) ==
  /\ UNCHANGED <<recOps, reqCap, submitSuccess, importVars, givenVars, notifyVars, nConf>>
  /\ PanelInteract /\ panelBulkMode /\ RowsShown
  /\ \E u \in SeqToSet(deletedUsers) : u._id = userId
  /\ selectedDeleted' = IF userId \in selectedDeleted THEN selectedDeleted \ {userId}
                        ELSE selectedDeleted \cup {userId}
  /\ ev' = <<"toggleSelection", userId>> /\ dirty' = TRUE
  /\ UNCHANGED <<storeVars, appVars, browserVars, reactVars, netVars, notifications,
                 paramObs, sigObs, showDeletedPanel, deletedUsers, loading, panelBulkMode,
                 panelConfirm>>

selectAllDeleted ==
  /\ UNCHANGED <<recOps, reqCap, submitSuccess, importVars, givenVars, notifyVars, nConf>>
  /\ PanelInteract /\ panelBulkMode /\ panelConfirm = Null
  /\ selectedDeleted' = {deletedUsers[k]._id : k \in 1..Len(deletedUsers)}
  /\ ev' = <<"selectAllDeleted">> /\ dirty' = TRUE
  /\ UNCHANGED <<storeVars, appVars, browserVars, reactVars, netVars, notifications,
                 paramObs, sigObs, showDeletedPanel, deletedUsers, loading, panelBulkMode,
                 panelConfirm>>

deselectAllDeleted ==
  /\ UNCHANGED <<recOps, reqCap, submitSuccess, importVars, givenVars, notifyVars, nConf>>
  /\ PanelInteract /\ panelBulkMode /\ panelConfirm = Null
  /\ selectedDeleted' = {}
  /\ ev' = <<"deselectAllDeleted">> /\ dirty' = TRUE
  /\ UNCHANGED <<storeVars, appVars, browserVars, reactVars, netVars, notifications,
                 paramObs, sigObs, showDeletedPanel, deletedUsers, loading, panelBulkMode,
                 panelConfirm>>

\* requestConfirmation of DeletedPanel
DeletedPanel_requestConfirmation(slot, dialog) == Some(dialog)

\* Restore Selected and Delete Permanently of the panel's bulk bar, up to
\* the confirmation: kind "bulk-restore" is bulkRestore, "bulk-delete-permanent"
\* is bulkPermanentDelete. The buttons are disabled while the selection is
\* empty; the handlers have their own check of that case. The pressed button
\* keeps the focus while the dialog lies over it.
PanelBulkKinds == {"bulk-restore", "bulk-delete-permanent"}

PanelBulkAction(kind) ==
  /\ recOps < MaxRecOps /\ recOps' = recOps + 1
  /\ UNCHANGED <<reqCap, submitSuccess, importVars, givenVars, notifyVars>>
  /\ PanelInteract /\ panelBulkMode
  /\ panelConfirm # Null => panelConfirm[1].kind = kind
  /\ IF NothingSelected(selectedDeleted)
     THEN /\ notifications' = Append(notifications, Notice("warning", "No users selected"))
          /\ UNCHANGED <<panelConfirm, nConf>>
     ELSE /\ panelConfirm' =
               DeletedPanel_requestConfirmation(panelConfirm,
                 Dialog(kind, NoId, Null, selectedDeleted, NoParams, nConf + 1))
          /\ nConf' = nConf + 1
          /\ UNCHANGED notifications
  /\ ev' = <<kind, selectedDeleted, panelConfirm # Null>> /\ dirty' = TRUE
  /\ UNCHANGED <<storeVars, appVars, browserVars, reactVars, netVars, paramObs, sigObs,
                 showDeletedPanel, deletedUsers, loading, selectedDeleted, panelBulkMode>>

bulkRestore == PanelBulkAction("bulk-restore")

bulkPermanentDelete == PanelBulkAction("bulk-delete-permanent")

\* a button of the panel's confirmation dialog: the awaiting handler goes on
\* to its POST with the ids of its closure
PanelConfirmResolve(confirmed) ==
  LET d == panelConfirm[1]
      sends == Proceeds(confirmed)
  IN
  /\ UNCHANGED <<recOps, reqCap, submitSuccess, importVars, givenVars, notifyVars, nConf>>
  /\ PanelInteract /\ panelConfirm # Null
  /\ sends => Budget(1)
  /\ panelConfirm' = Null
  /\ inflight' = IF sends
                 THEN inflight \cup
                        {ConfirmedRequest(nReq + 1, d.kind, NoParams, NoId, Null, d.ids,
                                          d.conf)}
                 ELSE inflight
  /\ nReq' = IF sends THEN nReq + 1 ELSE nReq
  /\ ev' = <<"PanelConfirmResolve", confirmed, d.kind>> /\ dirty' = TRUE
  /\ UNCHANGED <<storeVars, appVars, browserVars, reactVars, notifications, paramObs,
                 sigObs, showDeletedPanel, deletedUsers, loading, selectedDeleted,
                 panelBulkMode>>

\* the rest of bulkRestore and of bulkPermanentDelete once the POST settles:
\* on success the notification, setSelectedDeleted([]), setBulkMode(false)
\* and fetchDeletedUsers(), awaited before onRestoreComplete
panelBulkSettled(r, res) ==
  LET ok == resOk(res)
  IN
  /\ UNCHANGED <<recOps, reqCap, submitSuccess, importVars, givenVars, notifyVars, nConf>>
  /\ mounted /\ ~dirty
  /\ r \in inflight /\ r.kind \in PanelBulkKinds
  /\ ok => Budget(1)
  /\ inflight' = IF ok
                 THEN (inflight \ {r}) \cup
                        {Request(nReq + 1, "deleted", NoParams, NoId, "complete")}
                 ELSE inflight \ {r}
  /\ nReq' = IF ok THEN nReq + 1 ELSE nReq
  /\ selectedDeleted' = IF ok THEN {} ELSE selectedDeleted
  /\ panelBulkMode' = IF ok THEN FALSE ELSE panelBulkMode
  /\ loading' = IF ok THEN TRUE ELSE loading
  /\ notifications' =
       IF ok THEN Append(notifications, Notice("success", r.kind))
       ELSE Append(notifications, Notice("error", r.kind))
  /\ ev' = <<"panelBulkSettled", res, r.conf>>
  /\ UNCHANGED <<storeVars, appVars, browserVars, reactVars, paramObs, sigObs,
                 showDeletedPanel, deletedUsers, panelConfirm>>
  /\ dirty' = TRUE

\* Restore and Delete of a row (rendered outside bulk mode): handleRestore
\* posts /api/users/:id/restore, handlePermanentDelete sends DELETE
\* /api/users/:id/permanent, both at once
RowKinds == {"restore", "delete-permanent"}

RowAction(kind, userId) ==
  /\ recOps < MaxRecOps /\ recOps' = recOps + 1
  /\ UNCHANGED <<reqCap, submitSuccess, importVars, givenVars, notifyVars, nConf>>
  /\ PanelInteract /\ ~panelBulkMode /\ RowsShown /\ Budget(1)
  /\ \E u \in SeqToSet(deletedUsers) : u._id = userId
  /\ inflight' = inflight \cup {Request(nReq + 1, kind, NoParams, userId, "user")}
  /\ nReq' = nReq + 1
  /\ ev' = <<kind, userId>>
  /\ UNCHANGED <<storeVars, appVars, browserVars, reactVars, notifications, paramObs,
                 sigObs, panelVars, dirty>>

handleRestore(userId) == RowAction("restore", userId)

handlePermanentDelete(userId) == RowAction("delete-permanent", userId)

\* the rest of handleRestore and of handlePermanentDelete
rowSettled(r, res) ==
  LET ok == resOk(res)
  IN
  /\ UNCHANGED <<recOps, reqCap, submitSuccess, importVars, givenVars, notifyVars, nConf>>
  /\ mounted /\ ~dirty
  /\ r \in inflight /\ r.kind \in RowKinds
  /\ ok => Budget(1)
  /\ inflight' = IF ok
                 THEN (inflight \ {r}) \cup
                        {Request(nReq + 1, "deleted", NoParams, NoId, "complete")}
                 ELSE inflight \ {r}
  /\ nReq' = IF ok THEN nReq + 1 ELSE nReq
  /\ loading' = IF ok THEN TRUE ELSE loading
  /\ notifications' =
       IF ok THEN Append(notifications, Notice("success", r.kind))
       ELSE Append(notifications, Notice("error", r.kind))
  /\ ev' = <<"rowSettled", res>>
  /\ UNCHANGED <<storeVars, appVars, browserVars, reactVars, paramObs, sigObs,
                 showDeletedPanel, deletedUsers, selectedDeleted, panelBulkMode,
                 panelConfirm>>
  /\ dirty' = TRUE

\* ------------------------------------------------------------ import
\* the files the user may pick
Files == {"a.csv", "b.csv"}

\* the preview the gateway computes from an uploaded file
ImportPreview(file) == [of |-> file, valid_users |-> 1]

\* Bodies of a response to an import request: a JSON object, the JSON value
\* null, or text that is not JSON. The imported field of a confirm result
\* is a number or absent.
ImportBody(tag, imported) == [tag |-> tag, imported |-> imported]

ImportResp(status, body) == [status |-> status, body |-> body]

PreviewResponses ==
  {ImportResp(200, ImportBody(t, Null)) : t \in {"object", "null", "text"}}
    \cup {ImportResp(500, ImportBody("object", Null))}

ConfirmResponses ==
  {ImportResp(200, ImportBody("object", Some(1))),
   ImportResp(200, ImportBody("object", Null)),
   ImportResp(200, ImportBody("text", Null)),
   ImportResp(500, ImportBody("object", Null))}

\* Bulk Import: the file is picked and input.onchange posts it to
\* /api/users/import/preview
handleBulkImport(file) ==
  /\ UNCHANGED <<recOps, reqCap, extVars>>
  /\ CanInteract /\ ~isModalOpen /\ confirmDialog = Null /\ Budget(1)
  /\ inflight' = inflight \cup {Request(nReq + 1, "import-preview", NoParams, file, "user")}
  /\ nReq' = nReq + 1
  /\ ev' = <<"handleBulkImport", file>>
  /\ UNCHANGED <<storeVars, appVars, browserVars, reactVars, dirty, notifications,
                 paramObs, sigObs>>

\* the rest of input.onchange: setImportPreview(previewData) and
\* setPendingImportFile(file)
importPreviewSettled(r, res) ==
  LET ok == resOk(res)
      parsed == ok /\ res.body.tag # "text"
  IN
  /\ UNCHANGED <<recOps, reqCap, submitSuccess, panelVars, nConf, givenVars, notifyVars>>
  /\ mounted /\ ~dirty
  /\ r \in inflight /\ r.kind = "import-preview"
  /\ inflight' = inflight \ {r}
  /\ importPreview' = IF ~parsed THEN importPreview
                      ELSE IF res.body.tag = "null" THEN Null
                      ELSE Some(ImportPreview(r.arg))
  /\ pendingImportFile' = IF parsed THEN Some(r.arg) ELSE pendingImportFile
  /\ notifications' = IF parsed THEN notifications
                      ELSE Append(notifications, Notice("error", "Failed to read file"))
  /\ ev' = <<"importPreviewSettled", res>>
  /\ UNCHANGED <<storeVars, appVars, browserVars, reactVars, nReq, paramObs, sigObs>>
  /\ dirty' = (View' # View)

\* the import review is rendered
ReviewShown == mounted /\ isLoggedIn /\ ~dirty /\ importPreview # Null

\* the confirm button of the import review: handleConfirmImport up to its
\* POST /api/users/import/confirm
handleConfirmImport ==
  /\ UNCHANGED <<recOps, reqCap, extVars>>
  /\ ReviewShown /\ importPreview[1].valid_users # 0
  /\ pendingImportFile # Null
  /\ Budget(1)
  /\ inflight' = inflight \cup
       {Request(nReq + 1, "import-confirm", ListParams, pendingImportFile[1], "user")}
  /\ nReq' = nReq + 1
  /\ ev' = <<"handleConfirmImport", pendingImportFile[1]>>
  /\ UNCHANGED <<storeVars, appVars, browserVars, reactVars, dirty, notifications,
                 paramObs, sigObs>>

\* the rest of handleConfirmImport: the notification, setImportPreview(null),
\* setPendingImportFile(null) and fetchUsers() of the render the handler was
\* created in
importConfirmSettled(r, res) ==
  LET ok == resOk(res)
      parsed == ok /\ res.body.tag # "text"
      imported == res.body.tag = "object" /\ res.body.imported # Null
  IN
  /\ UNCHANGED <<recOps, reqCap, submitSuccess, panelVars, nConf, givenVars, notifyVars>>
  /\ mounted /\ ~dirty
  /\ r \in inflight /\ r.kind = "import-confirm"
  /\ parsed => Budget(1)
  /\ inflight' = IF parsed
                 THEN (inflight \ {r}) \cup
                        {Request(nReq + 1, "list", r.params, NoId, "import")}
                 ELSE inflight \ {r}
  /\ nReq' = IF parsed THEN nReq + 1 ELSE nReq
  /\ isLoading' = IF parsed THEN TRUE ELSE isLoading
  /\ importPreview' = IF parsed THEN Null ELSE importPreview
  /\ pendingImportFile' = IF parsed THEN Null ELSE pendingImportFile
  /\ notifications' =
       Append(notifications,
              IF ~parsed THEN Notice("error", "Import failed")
              ELSE IF imported THEN Notice("success", "Successfully imported")
              ELSE Notice("warning", "Import completed but response format was unexpected."))
  /\ ev' = <<"importConfirmSettled", res>>
  /\ UNCHANGED <<items, departments, searchQuery, genderFilter, departmentFilter,
                 selectedUsers, bulkMode, currentPage, totalUsers, sortBy, sortOrder,
                 rateLimitInfo, appVars, browserVars, reactVars, paramObs, sigObs>>
  /\ dirty' = TRUE

\* the reject button of the import review
handleRejectImport ==
  /\ UNCHANGED <<recOps, reqCap, submitSuccess, panelVars, nConf, givenVars, notifyVars>>
  /\ ReviewShown
  /\ importPreview' = Null
  /\ pendingImportFile' = Null
  /\ notifications' = Append(notifications, Notice("warning", "Import cancelled"))
  /\ ev' = <<"handleRejectImport">> /\ dirty' = TRUE
  /\ UNCHANGED <<storeVars, appVars, browserVars, reactVars, netVars, paramObs, sigObs>>

\* the close button of the import review
CloseImportReview ==
  /\ UNCHANGED <<recOps, reqCap, submitSuccess, panelVars, nConf, givenVars, notifyVars>>
  /\ ReviewShown
  /\ importPreview' = Null
  /\ pendingImportFile' = Null
  /\ ev' = <<"CloseImportReview">> /\ dirty' = TRUE
  /\ UNCHANGED <<storeVars, appVars, browserVars, reactVars, netVars, notifications,
                 paramObs, sigObs>>

\* ------------------------------------------------------------ list view
\* Query parameters and listing: the gateway answers a listing request with
\* a page of users or with a server error.
QueryResponses ==
  {Resp(200, TRUE, b.users, b.total, Null, Null, <<>>) : b \in ListingBodies}
    \cup {Resp(500, TRUE, <<>>, Null, Null, Null, <<>>),
          Resp(429, TRUE, <<>>, Null, Null, Null, <<>>)}

DepartmentsOk == {Resp(200, TRUE, <<>>, Null, Null, Null, <<"Eng">>)}

Next ==
  \/ Mount
  \/ Commit
  \/ \E v \in SearchValues : handleSearchQueryChange(v)
  \/ \E v \in GenderFilters : handleGenderFilterChange(v)
  \/ \E v \in DepartmentFilters : handleDepartmentFilterChange(v)
  \/ \E v \in SortKeys : handleSortByChange(v)
  \/ \E v \in SortOrders : handleSortOrderChange(v)
  \/ resetFilters
  \/ PreviousPage
  \/ NextPage
  \/ \E r \in inflight : \E res \in QueryResponses : fetchUsersSettled(r, res)
  \/ \E r \in inflight : \E res \in DepartmentsOk : fetchDepartmentsSettled(r, res)
  \/ signIn(TRUE)
  \/ signIn(FALSE)
  \/ Logout

Spec == Init /\ [][Next]_vars

\* ------------------------------------------------------------ rate limiting
\* Listing under rate limiting: every listing answer, the countdown and the
\* retry timeout, and the views that block the retry.
RateResponses ==
  {Resp(200, TRUE, <<RawUser(1, NoId, 0)>>, Some(31), Null, Null, <<>>),
   Resp(500, TRUE, <<>>, Null, Null, Null, <<>>)} \cup RateLimitResponses

InitRate ==
  /\ sessionLoggedIn = FALSE
  /\ lsBackend = ""
  /\ lsRecents = [k \in RecentKeys |-> Missing]
  /\ FreshPage /\ shown = Null
  /\ normIn = Null /\ normOut = Null /\ bulkScope = "list"
  /\ recOps = 0
  /\ reqCap = MaxRateReq
  /\ ev = <<"Init">>

NextRate ==
  \/ Mount
  \/ Commit
  \/ PreviousPage
  \/ NextPage
  \/ \E r \in inflight : \E res \in RateResponses : fetchUsersSettled(r, res)
  \/ \E r \in inflight : \E res \in DepartmentsOk : fetchDepartmentsSettled(r, res)
  \/ \E d \in TickChoices : Tick(d)
  \/ ToastExpire
  \/ ToastClose
  \/ RetryTimeout
  \/ OpenCreateForm
  \/ CloseCreateForm
  \/ ToggleBulkMode
  \/ closeModal
  \/ \E u \in SeqToSet(items) : handleUserClick(u)
  \/ signIn(TRUE)

SpecRate == InitRate /\ [][NextRate]_vars

\* ------------------------------------------------------------ detail view
\* Recently viewed history, delete and update, from a signed-in page load
\* over each kind of stored history.
Prefix(n) == [k \in 1..n |-> RecentEntry(k, 0)]

StoredHistories ==
  {Missing, Corrupt} \cup {JSONstringify(Prefix(n)) : n \in {1, RecentCap - 1, RecentCap}}

DetailResponses ==
  {Resp(200, TRUE,
        <<RawUser(1, NoId, 0), RawUser(NoId, RecentCap, 0),
          RawUser(RecentCap + 1, NoId, 0), RawUser(NoId, NoId, 0)>>,
        Some(4), Null, Null, <<>>)}

InitRecents ==
  /\ sessionLoggedIn = TRUE
  /\ lsBackend = ""
  /\ lsRecents \in [RecentKeys -> StoredHistories]
  /\ FreshPage /\ shown = Null
  /\ normIn = Null /\ normOut = Null /\ bulkScope = "list"
  /\ recOps = 0
  /\ reqCap = MaxReq
  /\ ev = <<"Init">>

NextRecents ==
  \/ Mount
  \/ Commit
  \/ \E u \in SeqToSet(items) : handleUserClick(u)
  \/ \E e \in SeqToSet(recentUsers) : handleRecentUserClick(e)
  \/ clearRecentViewed
  \/ closeModal
  \/ deleteUser
  \/ ConfirmDialogResolve(TRUE)
  \/ ConfirmDialogResolve(FALSE)
  \/ UserModalSubmit("valid")
  \/ \E r \in inflight : \E res \in DetailResponses : fetchUsersSettled(r, res)
  \/ \E r \in inflight : \E res \in DepartmentsResponses : fetchDepartmentsSettled(r, res)
  \/ \E r \in inflight : \E res \in DeleteResponses : deleteUserSettled(r, res)
  \/ \E r \in inflight : \E res \in UpdateResponses(r.arg) : UserModalSettled(r, res)
  \/ \E b \in Backends : SwitchBackend(b)
  \/ signIn(TRUE)

SpecRecents == InitRecents /\ [][NextRecents]_vars

\* ------------------------------------------------------------ bulk actions
\* Bulk mode of the main list and of the Deleted Users panel, the
\* confirmation dialogs and the single deletes, from a signed-in session.
BulkListings ==
  {Resp(200, TRUE, b.users, b.total, Null, Null, <<>>) : b \in ListingBodies}

InitBulk ==
  /\ sessionLoggedIn = TRUE
  /\ lsBackend = ""
  /\ lsRecents = [k \in RecentKeys |-> Missing]
  /\ FreshPage /\ shown = Null
  /\ normIn = Null /\ normOut = Null /\ bulkScope = "list"
  /\ recOps = 0
  /\ reqCap = MaxBulkReq
  /\ ev = <<"Init">>

NextBulk ==
  \/ Mount
  \/ Commit
  \/ NextPage
  \/ \E r \in inflight : \E res \in BulkListings : fetchUsersSettled(r, res)
  \/ \E r \in inflight : \E res \in DepartmentsOk : fetchDepartmentsSettled(r, res)
  \/ ToggleBulkMode
  \/ \E id \in {1, 2} : toggleUserSelection(id)
  \/ selectAll
  \/ deselectAll
  \/ CancelBulk
  \/ bulkDeleteUsers
  \/ ConfirmDialogResolve(TRUE)
  \/ ConfirmDialogResolve(FALSE)
  \/ \E r \in inflight : \E res \in BulkResponses : bulkDeleteSettled(r, res)
  \/ \E u \in SeqToSet(items) : handleUserClick(u)
  \/ closeModal
  \/ deleteUser
  \/ \E r \in inflight : \E res \in BulkResponses : deleteUserSettled(r, res)

SpecBulk == InitBulk /\ [][NextBulk]_vars

\* The bulk actions of the main list and of the Deleted Users panel with
\* their confirmations, and the row actions of the panel.
InitPanel ==
  /\ sessionLoggedIn = TRUE
  /\ lsBackend = ""
  /\ lsRecents = [k \in RecentKeys |-> Missing]
  /\ FreshPage /\ shown = Null
  /\ normIn = Null /\ normOut = Null /\ bulkScope \in {"list", "panel"}
  /\ recOps = 0
  /\ reqCap = MaxPanelReq
  /\ ev = <<"Init">>

OneListing ==
  {Resp(200, TRUE, <<RawUser(1, NoId, 0), RawUser(NoId, 2, 0)>>, Some(2), Null, Null,
        <<>>)}

DeletedOk ==
  {Resp(200, TRUE, <<RawUser(3, NoId, 0), RawUser(NoId, 4, 0)>>, Null, Null, Null, <<>>)}

PanelResponses ==
  {Resp(200, TRUE, <<>>, Null, Null, Null, <<>>),
   Resp(500, TRUE, <<>>, Null, Null, Null, <<>>)}

NextPanel ==
  \/ Mount
  \/ Commit
  \/ \E r \in inflight : \E res \in OneListing : fetchUsersSettled(r, res)
  \/ \E r \in inflight : \E res \in DepartmentsOk : fetchDepartmentsSettled(r, res)
  \/ ToggleBulkMode
  \/ selectAll
  \/ bulkDeleteUsers
  \/ ConfirmDialogResolve(TRUE)
  \/ ConfirmDialogResolve(FALSE)
  \/ \E r \in inflight : \E res \in PanelResponses : bulkDeleteSettled(r, res)
  \/ OpenDeletedPanel
  \/ \E r \in inflight : \E res \in DeletedOk : fetchDeletedSettled(r, res)
  \/ PanelToggleBulkMode
  \/ selectAllDeleted
  \/ bulkRestore
  \/ bulkPermanentDelete
  \/ PanelConfirmResolve(TRUE)
  \/ PanelConfirmResolve(FALSE)
  \/ \E r \in inflight : \E res \in PanelResponses : panelBulkSettled(r, res)
  \/ handleRestore(3)
  \/ handlePermanentDelete(3)
  \/ \E r \in inflight : \E res \in PanelResponses : rowSettled(r, res)

SpecPanel == InitPanel /\ [][NextPanel]_vars

\* Two-phase import from a signed-in session.
InitImport ==
  /\ sessionLoggedIn = TRUE
  /\ lsBackend = ""
  /\ lsRecents = [k \in RecentKeys |-> Missing]
  /\ FreshPage /\ shown = Null
  /\ normIn = Null /\ normOut = Null /\ bulkScope = "list"
  /\ recOps = 0
  /\ reqCap = MaxImportReq
  /\ ev = <<"Init">>

NextImport ==
  \/ Mount
  \/ Commit
  \/ \E r \in inflight : \E res \in OneListing : fetchUsersSettled(r, res)
  \/ \E r \in inflight : \E res \in DepartmentsOk : fetchDepartmentsSettled(r, res)
  \/ \E f \in Files : handleBulkImport(f)
  \/ \E r \in inflight : \E res \in PreviewResponses : importPreviewSettled(r, res)
  \/ handleConfirmImport
  \/ \E r \in inflight : \E res \in ConfirmResponses : importConfirmSettled(r, res)
  \/ handleRejectImport
  \/ CloseImportReview

SpecImport == InitImport /\ [][NextImport]_vars

\* ------------------------------------------------------------ create
\* what the three checks of handleCreateSubmit find in the form
\* usersSlice.addUserToFront
addUserToFront(list, user) == <<user>> \o list

\* handleCreateSubmit up to its POST request
handleCreateSubmit(form) ==
  /\ recOps < MaxRecOps /\ recOps' = recOps + 1
  /\ UNCHANGED <<reqCap, extVars>>
  /\ mounted /\ isLoggedIn /\ ~dirty /\ showCreateForm /\ ~submitSuccess
  /\ IF CreateRejects(form)
     THEN /\ notifications' = Append(notifications, Notice("warning", form))
          /\ UNCHANGED netVars
     ELSE /\ Budget(2)
          /\ inflight' = inflight \cup {Request(nReq + 1, "create", NoParams, NoId, "user")}
          /\ nReq' = nReq + 1
          /\ UNCHANGED notifications
  /\ ev' = <<"handleCreateSubmit", form>>
  /\ dirty' = (notifications' # notifications)
  /\ UNCHANGED <<storeVars, appVars, browserVars, reactVars, paramObs, sigObs>>

\* a POST answer: the created record with its department, a body that is not
\* JSON, or a failure
CreateResponses ==
  {Resp(200, TRUE, <<RawUser(NoId, 3, 0)>>, Null, Null, Null, <<"Eng">>),
   Resp(201, TRUE, <<RawUser(4, 3, 0)>>, Null, Null, Null, <<"Ops">>),
   Resp(200, FALSE, <<>>, Null, Null, Null, <<>>),
   Resp(500, TRUE, <<>>, Null, Null, Null, <<>>)}

\* the rest of handleCreateSubmit once the POST settles
createSettled(r, res) ==
  LET created == resOk(res) /\ res.json
      createdNormalized == normalizeUser(res.users[1])
      goesOn == /\ created /\ res.departments # <<>>
                /\ res.departments[1] \notin SeqToSet(departments)
  IN
  /\ UNCHANGED <<recOps, reqCap, importVars, panelVars, nConf, givenVars, notifyVars>>
  /\ mounted /\ ~dirty
  /\ r \in inflight /\ r.kind = "create"
  /\ items' = IF created THEN addUserToFront(items, createdNormalized) ELSE items
  /\ submitSuccess' = IF created THEN TRUE ELSE submitSuccess
  /\ notifications' = IF created THEN notifications
                      ELSE Append(notifications, Notice("error", "Failed to create user"))
  /\ inflight' = (inflight \ {r}) \cup
       (IF goesOn THEN {Request(nReq + 1, "departments", NoParams, NoId, "create")}
        ELSE {})
  /\ nReq' = IF goesOn THEN nReq + 1 ELSE nReq
  /\ ev' = <<"createSettled", res>>
  /\ UNCHANGED <<departments, searchQuery, genderFilter, departmentFilter, selectedUsers,
                 bulkMode, currentPage, totalUsers, sortBy, sortOrder, isLoading,
                 rateLimitInfo, appVars, browserVars, reactVars, paramObs, sigObs>>
  /\ dirty' = TRUE

\* a listing with the id under either name, and PUT answers likewise
StoreListings ==
  {Resp(200, TRUE, <<RawUser(1, NoId, 0), RawUser(NoId, 2, 0)>>, Some(2), Null, Null,
        <<>>)}

StoreUpdates ==
  {Resp(200, TRUE, <<RawUser(id, NoId, 1)>>, Null, Null, Null, <<>>) : id \in {1, 2}}
    \cup {Resp(200, TRUE, <<RawUser(NoId, 2, 1)>>, Null, Null, Null, <<>>),
          Resp(200, FALSE, <<>>, Null, Null, Null, <<>>),
          Resp(500, TRUE, <<>>, Null, Null, Null, <<>>)}

InitStore ==
  /\ sessionLoggedIn = TRUE
  /\ lsBackend = ""
  /\ lsRecents = [k \in RecentKeys |-> Missing]
  /\ FreshPage /\ shown = Null
  /\ normIn = Null /\ normOut = Null /\ bulkScope = "list"
  /\ recOps = 0
  /\ reqCap = MaxStoreReq
  /\ ev = <<"Init">>

NextStore ==
  \/ Mount
  \/ Commit
  \/ \E r \in inflight : \E res \in StoreListings : fetchUsersSettled(r, res)
  \/ \E r \in inflight : \E res \in DepartmentsOk : fetchDepartmentsSettled(r, res)
  \/ OpenCreateForm
  \/ CloseCreateForm
  \/ \E form \in FormStates : handleCreateSubmit(form)
  \/ \E r \in inflight : \E res \in CreateResponses : createSettled(r, res)
  \/ \E u \in SeqToSet(items) : handleUserClick(u)
  \/ closeModal
  \/ \E form \in FormStates : UserModalSubmit(form)
  \/ \E r \in inflight : \E res \in StoreUpdates : UserModalSettled(r, res)
  \/ ToggleBulkMode
  \/ \E u \in SeqToSet(items) : toggleUserSelection(u._id)
  \/ selectAll

SpecStore == InitStore /\ [][NextStore]_vars

\* ------------------------------------------------------------ normalization
\* normalizeUser on its own: the gateway records it is given and the records
\* it returns.
\* image values: none, null, a number, '', '/img/x', 'https://y/i', 'data:x'
\* and 'httpdocs/x'
ImageFields ==
  {ImageField("absent", <<>>), ImageField("null", <<>>), ImageField("number", <<>>),
   ImageField("string", <<>>),
   ImageField("string", <<"/", "i", "m", "g", "/", "x">>),
   ImageField("string", HttpPrefix \o <<"s", ":", "/", "/", "y", "/", "i">>),
   ImageField("string", <<"d", "a", "t", "a", ":", "x">>),
   ImageField("string", HttpPrefix \o <<"d", "o", "c", "s", "/", "x">>)}

RawUsers ==
  {RawUserWithImage(a, b, r, img) :
     a \in {NoId, 1}, b \in {NoId, 2}, r \in {0, 1}, img \in ImageFields}

\* a User read back as a gateway record: image is a string or null
AsRaw(user) ==
  RawUserWithImage(user._id, user.id, user.rev,
                   IF user.image = Null THEN ImageField("null", <<>>)
                   ELSE ImageField("string", user.image[1]))

restVars == <<storeVars, appVars, browserVars, reactVars, dirty, netVars,
              notifications, paramObs, sigObs, recOps, reqCap, uiExt, bulkScope,
              notifyVars>>

ApplyNormalizeUser ==
  /\ normIn # Null
  /\ normOut = Null
  /\ normOut' = Some(normalizeUser(normIn[1]))
  /\ ev' = <<"normalizeUser", ev[1] = "NormalizeAgain">>
  /\ UNCHANGED <<normIn, restVars>>

NormalizeAgain ==
  /\ normOut # Null
  /\ ev = <<"normalizeUser", FALSE>>
  /\ normIn' = Some(AsRaw(normOut[1]))
  /\ normOut' = Null
  /\ ev' = <<"NormalizeAgain">>
  /\ UNCHANGED restVars

InitNormalize ==
  /\ sessionLoggedIn = TRUE
  /\ lsBackend = ""
  /\ lsRecents = [k \in RecentKeys |-> Missing]
  /\ FreshPage /\ shown = Null
  /\ normIn \in {Some(raw) : raw \in RawUsers}
  /\ normOut = Null
  /\ bulkScope = "list"
  /\ recOps = 0
  /\ reqCap = MaxReq
  /\ ev = <<"Init">>

NextNormalize ==
  \/ ApplyNormalizeUser
  \/ NormalizeAgain

SpecNormalize == InitNormalize /\ [][NextNormalize]_vars

\* ------------------------------------------------------------ clearUsers
\* usersSlice.clearUsers on its own, next to a page that is not signed in:
\* the states of the slice it is given
StoreStates ==
  LET base == [items |-> <<>>, departments |-> <<"Eng">>, searchQuery |-> "",
               genderFilter |-> "all", departmentFilter |-> "all",
               selectedUsers |-> {}, bulkMode |-> FALSE, currentPage |-> 1,
               totalUsers |-> 0, sortBy |-> "firstName", sortOrder |-> "asc",
               isLoading |-> FALSE, rateLimitInfo |-> Null]
  IN  {[base EXCEPT !.items = it, !.totalUsers = t, !.searchQuery = q,
                    !.currentPage = pg, !.selectedUsers = sel, !.rateLimitInfo = rl] :
         it \in {<<>>, <<normalizeUser(RawUser(1, NoId, 0))>>}, t \in {0, 1, 31},
         q \in {"", "a"}, pg \in {1, 2}, sel \in {{}, {1}},
         rl \in {Null, Some([retryAfter |-> 1, gen |-> 1])}}

ApplyClearUsers ==
  /\ normIn # Null
  /\ normOut = Null
  /\ normOut' = Some(clearUsers(normIn[1]))
  /\ ev' = <<"clearUsers">>
  /\ UNCHANGED <<normIn, restVars>>

InitClear ==
  /\ sessionLoggedIn = FALSE
  /\ lsBackend = ""
  /\ lsRecents = [k \in RecentKeys |-> Missing]
  /\ FreshPage /\ shown = Null
  /\ normIn \in {Some(state) : state \in StoreStates}
  /\ normOut = Null
  /\ bulkScope = "list"
  /\ recOps = 0
  /\ reqCap = MaxReq
  /\ ev = <<"Init">>

NextClear ==
  \/ Mount
  \/ Commit
  \/ signIn(TRUE)
  \/ signIn(FALSE)
  \/ Logout
  \/ \E r \in inflight : \E res \in OneListing : fetchUsersSettled(r, res)
  \/ \E r \in inflight : \E res \in DepartmentsOk : fetchDepartmentsSettled(r, res)
  \/ ApplyClearUsers

SpecClear == InitClear /\ [][NextClear]_vars

\* ------------------------------------------------------------ response order
\* Overlapping listing requests: a signed-in page whose search text, sort
\* direction and page change while earlier listing requests are still in
\* flight; the observation `shown` is recorded.
InitOrder ==
  /\ sessionLoggedIn = TRUE
  /\ lsBackend = ""
  /\ lsRecents = [k \in RecentKeys |-> Missing]
  /\ FreshPage /\ shown = NothingShown
  /\ normIn = Null /\ normOut = Null /\ bulkScope = "list"
  /\ recOps = 0
  /\ reqCap = MaxOrderReq
  /\ ev = <<"Init">>

NextOrder ==
  \/ Mount
  \/ Commit
  \/ \E v \in SearchValues : handleSearchQueryChange(v)
  \/ \E v \in SortOrders : handleSortOrderChange(v)
  \/ PreviousPage
  \/ NextPage
  \/ \E r \in inflight : \E res \in QueryResponses : fetchUsersSettled(r, res)
  \/ \E r \in inflight : \E res \in DepartmentsOk : fetchDepartmentsSettled(r, res)

SpecOrder == InitOrder /\ [][NextOrder]_vars

\* ------------------------------------------------------------ notifications
\* NotificationProvider in full: every entry has an id and a duration, and a
\* positive duration arms a browser timeout kept in timeoutRefs.current.
NoticeTypes == {"info", "error"}
DefaultDuration == 4000
Durations == {0, DefaultDuration}

\* Date.now() + Math.random(): a number above every id of an earlier
\* millisecond; within one millisecond the same number can come back (the sum
\* keeps only a few thousand distinct fractions)
NewIds == IF sameMs THEN {lastId, lastId + 1} ELSE {lastId + 1}

Entry(id, type, duration) ==
  [id |-> id, type |-> type, text |-> "message", duration |-> duration]

\* window.clearTimeout(timeoutRefs.current[id]) where the reference exists
ClearedBy(id, pending) ==
  {t \in pending : ~\E ref \in timeoutRefs : ref.id = id /\ ref.handle = t.handle}

\* removeNotification(id), given the timeouts still pending
removeNotification(id, pending) ==
  /\ timeouts' = ClearedBy(id, pending)
  /\ timeoutRefs' = {ref \in timeoutRefs : ref.id # id}
  /\ notifications' = SelectSeq(notifications, LAMBDA notif : notif.id # id)

showNotification(type, duration) ==
  \E id \in NewIds :
    LET timeoutId == nShown + 1
    IN
    /\ nShown < MaxNotify /\ nShown' = nShown + 1
    /\ notifications' = Append(notifications, Entry(id, type, duration))
    /\ timeouts' = IF duration > 0
                   THEN timeouts \cup {[handle |-> timeoutId, id |-> id]}
                   ELSE timeouts
    /\ timeoutRefs' = IF duration > 0
                      THEN {ref \in timeoutRefs : ref.id # id}
                             \cup {[id |-> id, handle |-> timeoutId]}
                      ELSE timeoutRefs
    /\ lastId' = id /\ sameMs' = TRUE
    /\ ev' = <<"showNotification", id, duration>>
    /\ UNCHANGED <<storeVars, appVars, browserVars, reactVars, dirty, netVars,
                   paramObs, sigObs, recOps, reqCap, uiExt, givenVars>>

\* the close button of the k-th notification shown
NotificationClose(k) ==
  /\ k \in 1..Len(notifications)
  /\ removeNotification(notifications[k].id, timeouts)
  /\ ev' = <<"NotificationClose", notifications[k].id>>
  /\ UNCHANGED <<storeVars, appVars, browserVars, reactVars, dirty, netVars,
                 paramObs, sigObs, recOps, reqCap, uiExt, givenVars, lastId, sameMs,
                 nShown>>

\* a pending timeout fires: its callback calls removeNotification(id)
NotificationTimeout(handle) ==
  \E t \in timeouts :
    /\ t.handle = handle
    /\ removeNotification(t.id, timeouts \ {t})
    /\ sameMs' = FALSE
    /\ ev' = <<"NotificationTimeout", t.id>>
    /\ UNCHANGED <<storeVars, appVars, browserVars, reactVars, dirty, netVars,
                   paramObs, sigObs, recOps, reqCap, uiExt, givenVars, lastId, nShown>>

\* the clock moves on to the next millisecond
MillisecondPasses ==
  /\ sameMs /\ sameMs' = FALSE
  /\ ev' = <<"MillisecondPasses">>
  /\ UNCHANGED <<storeVars, appVars, browserVars, reactVars, dirty, netVars,
                 notifications, paramObs, sigObs, recOps, reqCap, uiExt, givenVars,
                 timeoutRefs, timeouts, lastId, nShown>>

InitNotify ==
  /\ sessionLoggedIn = FALSE
  /\ lsBackend = ""
  /\ lsRecents = [k \in RecentKeys |-> Missing]
  /\ FreshPage /\ shown = Null
  /\ normIn = Null /\ normOut = Null /\ bulkScope = "list"
  /\ recOps = 0
  /\ reqCap = MaxReq
  /\ ev = <<"Init">>

NextNotify ==
  \/ \E type \in NoticeTypes : \E duration \in Durations : showNotification(type, duration)
  \/ \E k \in 1..MaxNotify : NotificationClose(k)
  \/ \E handle \in 1..MaxNotify : NotificationTimeout(handle)
  \/ MillisecondPasses

\* the browser fires every timeout that stays pending
SpecNotify ==
  /\ InitNotify /\ [][NextNotify]_vars
  /\ \A handle \in 1..MaxNotify : WF_vars(NotificationTimeout(handle))

\* ------------------------------------------------------------ properties
\* a listing request issued by the listing effect after a user change
EffectRequests == {r \in inflight : r.kind = "list" /\ r.cause = "effect" /\ r.intent # "none"}

\* C1: once a search, gender, department, sort-key or sort-direction change
\* (or the filter reset) has been processed, the page number is 1, whatever
\* the page it was made on.
C1_PageIsOneAfterMutation ==
  (mounted /\ ~dirty /\ lastIntent[1] = "filter") => currentPage = 1

\* a filter change made on page 2 has been processed and the page is 1
C1_Witness ==
  mounted /\ ~dirty /\ lastIntent = <<"filter", 2>> /\ currentPage = 1 /\ nReq > 2

\* C2: each user change of page, search, filter or sort causes exactly one
\* listing request, and a request caused by a search, filter or sort change
\* carries page 1 (skip 0), never the page in force before the reset.
C2_OneRequestPerChange ==
  /\ \A r \in EffectRequests : r.intent = "filter" => r.params.skip = 0
  /\ \A r1, r2 \in EffectRequests : r1.change = r2.change => r1 = r2

\* C6: while the rate-limit signal is present in the store, no listing
\* request is issued in response to a page, search, filter or sort change.
C6_RefreshSuspendedWhileLimited ==
  \A r \in EffectRequests : ~r.limited

\* the step handled a listing answer with status 429
ListingLimitedStep == ev'[1] = "fetchUsersSettled" /\ ev'[2].status = 429

\* C3: a listing answer with status 429 installs the signal with retryAfter
\* from detail.retry_after, else retry_after, else 60, leaves items and total
\* as they were and adds no notification.
C3_ListingRateLimitInstallsSignal ==
  [][ListingLimitedStep =>
        /\ rateLimitInfo' # Null
        /\ rateLimitInfo'[1].retryAfter =
             (IF ev'[2].detail # Null THEN ev'[2].detail[1]
              ELSE IF ev'[2].retry_after # Null THEN ev'[2].retry_after[1]
              ELSE 60)
        /\ items' = items /\ totalUsers' = totalUsers
        /\ notifications' = notifications]_vars

\* C4: when the countdown of a signal with retryAfter > 0 reaches zero with
\* no creation form, detail modal or bulk mode open, the signal is cleared
\* and exactly one listing refetch has been issued for it.
C4_OneRefetchAtFreeExpiry ==
  sigFate = "expiredFree" => (rateLimitInfo = Null /\ sigRetries = 1)

\* C5: when the countdown reaches zero with a creation form, detail modal or
\* bulk mode open, the signal is cleared and no refetch is issued for it.
C5_NoRefetchAtBlockedExpiry ==
  sigFate = "expiredBlocked" => (rateLimitInfo = Null /\ sigRetries = 0)

\* the retry timeout has fired with a blocking view open, and the render
\* after it is done
C5_Witness ==
  /\ sigFate = "expiredBlocked" /\ ev = <<"Commit">> /\ ~dirty
  /\ refreshTimer = Null /\ toastLeft = Null /\ BlockingOpen

\* the history stored for backend b
StoredUnder(b) == lsRecents[<<"recentviewedusers", b, "v1">>]

\* the step handled a 429 answer to a listing, departments or delete request
GatewayLimitedStep ==
  /\ ev'[1] \in {"fetchUsersSettled", "fetchDepartmentsSettled", "deleteUserSettled"}
  /\ ev'[2].status = 429

\* C7: a 429 answer to any gateway request installs the rate-limit signal
\* and shows no error notification.
C7_EveryRateLimitIntercepted ==
  [][GatewayLimitedStep =>
       (rateLimitInfo' # Null /\ notifications' = notifications)]_vars

\* the step is a click that records a user with an id
RecordStep ==
  /\ ev'[1] \in {"handleUserClick", "handleRecentUserClick"}
  /\ ev'[3] # NoId

Ids(list) == {list[k].id : k \in 1..Len(list)}
NoDuplicateIds(list) == \A j, k \in 1..Len(list) : list[j].id = list[k].id => j = k

\* C8: the recently viewed list never has more than 10 entries or two
\* entries with one id; a completed record puts the recorded id first;
\* recording an id already listed keeps the length; recording a new id on a
\* full list drops exactly the last entry.
C8_RecentsBoundedDedupedMostRecentFirst ==
  [][/\ Len(recentUsers') <= 10
     /\ NoDuplicateIds(recentUsers')
     /\ (RecordStep /\ ev'[2] = "done") =>
          /\ recentUsers'[1].id = ev'[3]
          /\ ev'[3] \in Ids(recentUsers) =>
               /\ Len(recentUsers') = Len(recentUsers)
               /\ Ids(recentUsers') = Ids(recentUsers)
          /\ (ev'[3] \notin Ids(recentUsers) /\ Len(recentUsers) = 10) =>
               /\ Len(recentUsers') = 10
               /\ SubSeq(recentUsers', 2, 10) = SubSeq(recentUsers, 1, 9)]_vars

\* an eleventh id has been recorded on a full list: the list is still full
\* and the entry that was last is gone
C8_Witness ==
  /\ ev = <<"handleUserClick", "done", RecentCap + 1>>
  /\ Len(recentUsers) = 10
  /\ recentUsers[1].id = RecentCap + 1
  /\ RecentCap \notin Ids(recentUsers)

\* C9: a load over a missing or unparseable stored value gives the empty
\* list, and a record made while the stored value is missing or unparseable
\* completes and leaves a list that starts with the recorded entry.
C9_CorruptStorageNeverThrows ==
  [][/\ (ev'[1] = "Mount" /\ StoredUnder(currentBackend).tag # "json")
          => recentUsers' = <<>>
     /\ (RecordStep /\ StoredUnder(currentBackend).tag # "json")
          => (ev'[2] = "done" /\ Len(recentUsers') >= 1
              /\ recentUsers'[1].id = ev'[3])]_vars

\* C10: no step changes the history stored under a backend other than the
\* selected one, and a page load shows the selected backend's history.
C10_OnlySelectedBackendKey ==
  [][/\ \A b \in Backends \ {currentBackend} : StoredUnder(b)' = StoredUnder(b)
     /\ ev'[1] = "Mount" =>
          recentUsers' = (IF StoredUnder(currentBackend).tag = "json"
                          THEN StoredUnder(currentBackend).list ELSE <<>>)]_vars

\* a user has been recorded under fastapi while node has a stored history
C10_Witness ==
  /\ currentBackend = "fastapi"
  /\ ev[1] = "handleUserClick" /\ ev[2] = "done" /\ ev[3] # NoId
  /\ StoredUnder("node").tag = "json" /\ StoredUnder("node").list # <<>>
  /\ StoredUnder("fastapi").list # StoredUnder("node").list

\* C11: in every state bulk mode off implies an empty selection: the toggle
\* button, Cancel and a successful bulk delete clear the selection when they
\* leave bulk mode, and nothing selects while bulk mode is off.
C11_BulkOffSelectionEmpty == ~bulkMode => selectedUsers = {}

\* bulk mode was left through Cancel with users selected
C11_Witness == ev[1] = "CancelBulk" /\ ev[2] # {} /\ ~bulkMode /\ selectedUsers = {}

\* C12: whenever the items of the store change (a listing response replaces
\* them, a deleted user is removed), the selection is cleared or pruned: every
\* selected id is then the id of a record in the items.
C12_SelectionPrunedOnListChange ==
  [][items' # items =>
       selectedUsers' \subseteq {items'[k]._id : k \in 1..Len(items')}]_vars

\* C13: delete-selected, restore-selected and permanently-delete-selected
\* invoked with an empty selection show one warning notification, open no
\* confirmation dialog, issue no request and leave the selections and the
\* bulk modes as they were.
EmptyBulkStep ==
  /\ ev'[1] \in {"bulkDeleteUsers", "bulk-restore", "bulk-delete-permanent"}
  /\ ev'[2] = {}

C13_EmptySelectionOnlyWarns ==
  [][EmptyBulkStep =>
       /\ notifications' = Append(notifications, Notice("warning", "No users selected"))
       /\ confirmDialog' = confirmDialog /\ panelConfirm' = panelConfirm
       /\ nConf' = nConf /\ inflight' = inflight /\ nReq' = nReq
       /\ selectedUsers' = selectedUsers /\ bulkMode' = bulkMode
       /\ selectedDeleted' = selectedDeleted /\ panelBulkMode' = panelBulkMode]_vars

\* restore-selected was invoked in the panel with nothing selected
C13_Witness ==
  /\ ev[1] = "bulk-restore" /\ ev[2] = {}
  /\ panelBulkMode /\ selectedDeleted = {} /\ panelConfirm = Null
  /\ notifications # <<>>
  /\ notifications[Len(notifications)] = Notice("warning", "No users selected")

\* C14: a bulk action with a non-empty selection sends its batched request
\* only when the user confirms its dialog; the step sends one request, with
\* all the ids that were selected when the action was invoked; when the user
\* cancels, nothing is sent and the selections and bulk modes stay as they are.
BulkKinds == {"bulk-delete", "bulk-restore", "bulk-delete-permanent"}

NewRequests == inflight' \ inflight

BulkInvokedStep ==
  /\ ev'[1] \in {"bulkDeleteUsers", "bulk-restore", "bulk-delete-permanent"}
  /\ ev'[2] # {}

ResolveStep(confirmed) ==
  /\ ev'[1] \in {"ConfirmDialogResolve", "PanelConfirmResolve"}
  /\ ev'[2] = confirmed
  /\ ev'[3] \in {"bulk"} \cup PanelBulkKinds

AnsweredDialog == IF ev'[1] = "ConfirmDialogResolve" THEN confirmDialog[1] ELSE panelConfirm[1]

C14_BulkRequestOnlyAfterConfirm ==
  [][/\ BulkInvokedStep =>
          /\ NewRequests = {}
          /\ IF ev'[1] = "bulkDeleteUsers"
             THEN confirmDialog' # Null /\ confirmDialog'[1].ids = selectedUsers
             ELSE panelConfirm' # Null /\ panelConfirm'[1].ids = selectedDeleted
     /\ (\E r \in NewRequests : r.kind \in BulkKinds) =>
          /\ ResolveStep(TRUE)
          /\ Cardinality(NewRequests) = 1
          /\ \A r \in NewRequests : r.ids = AnsweredDialog.ids /\ r.ids # {}
     /\ ResolveStep(TRUE) => \E r \in NewRequests : r.kind \in BulkKinds
     /\ ResolveStep(FALSE) =>
          /\ NewRequests = {}
          /\ selectedUsers' = selectedUsers /\ bulkMode' = bulkMode
          /\ selectedDeleted' = selectedDeleted /\ panelBulkMode' = panelBulkMode]_vars

\* the dialog of a panel bulk action was confirmed and its request is in flight
C14_Witness ==
  /\ ev[1] = "PanelConfirmResolve" /\ ev[2] = TRUE
  /\ \E r \in inflight : r.kind \in PanelBulkKinds /\ r.ids = {NoId, 3}

\* C15: when a confirmed bulk request succeeds, the selection is cleared,
\* bulk mode is left and a refresh of the list is issued; when it fails, the
\* selection and bulk mode stay as they are, no refresh is issued and one
\* error notification is shown.
BulkSettledStep == ev'[1] \in {"bulkDeleteSettled", "panelBulkSettled"}

C15_BulkOutcome ==
  [][BulkSettledStep =>
       IF ev'[2].status = 200
       THEN IF ev'[1] = "bulkDeleteSettled"
            THEN /\ selectedUsers' = {} /\ ~bulkMode'
                 /\ \E r \in NewRequests : r.kind = "list"
            ELSE /\ selectedDeleted' = {} /\ ~panelBulkMode'
                 /\ \E r \in NewRequests : r.kind = "deleted"
       ELSE /\ NewRequests = {}
            /\ selectedUsers' = selectedUsers /\ bulkMode' = bulkMode
            /\ selectedDeleted' = selectedDeleted /\ panelBulkMode' = panelBulkMode
            /\ Len(notifications') = Len(notifications) + 1
            /\ notifications'[Len(notifications')].type = "error"]_vars

\* a bulk delete of the main list succeeded: its refresh is in flight
C15_Witness ==
  /\ ev[1] = "bulkDeleteSettled" /\ ev[2].status = 200
  /\ ~bulkMode /\ selectedUsers = {}
  /\ \E r \in inflight : r.kind = "list" /\ r.cause = "bulk"

\* C16: each confirmation dialog goes idle -> awaiting -> idle: it changes
\* only when a handler requests a confirmation (the dialog then shows that
\* request, also when another one was pending) or when the pending one is
\* answered; an answer closes it, Confirm sends the one request of the
\* pending confirmation and Cancel sends nothing; a request that went
\* through a confirmation always comes from the answer to the confirmation
\* then shown, so the action of a replaced confirmation never runs.
SlotGated(slot, slotNext, invokers, resolver) ==
  /\ slot # slotNext =>
       \/ /\ ev'[1] \in invokers
          /\ slotNext # Null /\ nConf' = nConf + 1 /\ slotNext[1].conf = nConf'
          /\ NewRequests = {}
       \/ /\ ev'[1] = resolver
          /\ slot # Null /\ slotNext = Null
          /\ IF ev'[2]
             THEN /\ Cardinality(NewRequests) = 1
                  /\ \A r \in NewRequests : r.conf = slot[1].conf
             ELSE NewRequests = {}
  /\ ev'[1] \in invokers /\ nConf' # nConf => slotNext # Null /\ slotNext[1].conf = nConf'

C16_ConfirmationGating ==
  [][/\ SlotGated(confirmDialog, confirmDialog', {"deleteUser", "bulkDeleteUsers"},
                  "ConfirmDialogResolve")
     /\ SlotGated(panelConfirm, panelConfirm', PanelBulkKinds, "PanelConfirmResolve")
     /\ \A r \in NewRequests : r.conf # 0 =>
          ev'[1] \in {"ConfirmDialogResolve", "PanelConfirmResolve"} /\ ev'[2]]_vars

\* Delete Selected was pressed again while its dialog was pending: the dialog
\* shows the second confirmation
C16_Witness ==
  /\ ev[1] = "bulkDeleteUsers" /\ ev[3]
  /\ confirmDialog # Null /\ confirmDialog[1].conf = 2 /\ nConf = 2

\* C17: every destructive or bulk request (single delete, single permanent
\* delete, bulk delete, bulk restore, bulk permanent delete) is sent by the
\* step in which the user confirms a confirmation dialog; none is sent
\* without a confirmation.
DestructiveKinds == {"delete", "delete-permanent"} \cup BulkKinds

C17_DestructiveOnlyAfterConfirm ==
  [][\A r \in NewRequests : r.kind \in DestructiveKinds =>
       /\ ev'[1] \in {"ConfirmDialogResolve", "PanelConfirmResolve"}
       /\ ev'[2]
       /\ r.conf # 0]_vars

\* C18: while an import preview is held, confirming sends one request to the
\* confirm endpoint with the file that produced the preview; when that
\* request succeeds, preview and retained file are cleared and a refresh of
\* the list is issued; rejecting clears both without any request; a preview
\* is held exactly when a file is retained.
C18_ImportTwoPhase ==
  [][/\ ev'[1] = "handleConfirmImport" =>
          /\ Cardinality(NewRequests) = 1
          /\ \A r \in NewRequests :
               r.kind = "import-confirm" /\ r.arg = importPreview[1].of
     /\ ev'[1] = "importConfirmSettled" /\ resOk(ev'[2]) =>
          /\ importPreview' = Null /\ pendingImportFile' = Null
          /\ \E r \in NewRequests : r.kind = "list"
     /\ ev'[1] = "handleRejectImport" =>
          /\ importPreview' = Null /\ pendingImportFile' = Null
          /\ NewRequests = {}
     /\ (importPreview' # Null) <=> (pendingImportFile' # Null)]_vars

\* a URL reference with a scheme: a colon before any slash (RFC 3986, 4.1-4.2)
IsAbsoluteUrl(s) ==
  \E k \in 2..Len(s) : s[k] = ":" /\ \A j \in 1..(k - 1) : s[j] \notin {":", "/"}

\* C19: normalizeUser prefixes a relative image path with the gateway origin,
\* returns an absolute URL unchanged, turns an absent, non-string or empty
\* image into null, and is the identity on an already normalized image.
C19_ImageMapping ==
  (normIn # Null /\ normOut # Null) =>
    LET field == normIn[1].image
        image == normOut[1].image
        isText == field.t = "string" /\ field.s # <<>>
    IN  /\ (isText /\ ~IsAbsoluteUrl(field.s)) => image = Some(API_BASE \o field.s)
        /\ (isText /\ IsAbsoluteUrl(field.s)) => image = Some(field.s)
        /\ ~isText => image = Null
        /\ ev = <<"normalizeUser", TRUE>> =>
             image = (IF field.t = "string" THEN Some(field.s) ELSE Null)


\* the id the claim calls canonical: the gateway's _id if present, else its id
CanonicalId(raw) == IF raw._id # NoId THEN raw._id ELSE raw.id

\* the record is normalizeUser of the gateway record and carries its
\* canonical id in both fields
EntersNormalized(user, raw) ==
  /\ user = normalizeUser(raw)
  /\ user._id = CanonicalId(raw) /\ user.id = CanonicalId(raw)

\* C20: a record enters the store only from a listing, create or update
\* response, as normalizeUser of the gateway record with _id = id = the
\* gateway's _id if present, otherwise its id; the selection checkbox and the
\* recents entry of a record use that same value.
C20_CanonicalIdInStore ==
  [][/\ ev'[1] = "fetchUsersSettled" =>
          \/ items' = items
          \/ /\ Len(items') = Len(ev'[2].users)
             /\ \A k \in 1..Len(items') : EntersNormalized(items'[k], ev'[2].users[k])
     /\ ev'[1] = "createSettled" =>
          \/ items' = items
          \/ /\ Len(items') = Len(items) + 1
             /\ EntersNormalized(items'[1], ev'[2].users[1])
             /\ SubSeq(items', 2, Len(items')) = items
     /\ ev'[1] = "UserModalSettled" =>
          \/ items' = items
          \/ \E k \in 1..Len(items) :
               /\ items' = [items EXCEPT ![k] = items'[k]]
               /\ EntersNormalized(items'[k], ev'[2].users[1])
               /\ items[k]._id = items'[k]._id
     /\ ev'[1] \notin {"fetchUsersSettled", "createSettled", "UserModalSettled"} =>
          SeqToSet(items') \subseteq SeqToSet(items)
     /\ \A k \in 1..Len(items') : items'[k]._id = items'[k].id
     /\ ev'[1] = "toggleUserSelection" =>
          /\ \E u \in SeqToSet(items) : u._id = ev'[2] /\ u.id = ev'[2]
          /\ (selectedUsers' \ selectedUsers) \cup (selectedUsers \ selectedUsers')
               = {ev'[2]}
     /\ ev'[1] = "selectAll" => selectedUsers' = {u.id : u \in SeqToSet(items)}
     /\ (ev'[1] = "handleUserClick" /\ recentUsers' # recentUsers) =>
          /\ recentUsers'[1]._id = ev'[3] /\ recentUsers'[1].id = ev'[3]
          /\ \E u \in SeqToSet(items) : u._id = ev'[3] /\ u.id = ev'[3]]_vars

\* a created record whose id came under the name id is at the front of the
\* store, after listed ones, and is selected and in the recents by that id
C20_Witness ==
  /\ Len(items) >= 3
  /\ items[1]._id = 3 /\ items[1].id = 3
  /\ 3 \in selectedUsers
  /\ recentUsers # <<>> /\ recentUsers[1]._id = 3

\* a submission of the create form or of the edit form
SubmitStep == ev'[1] \in {"handleCreateSubmit", "UserModalSubmit"}

\* C21: a submission of the create form or of the edit form with a malformed
\* email or phone, a blank required field, digits in a name-like field or an
\* invalid gender adds one warning notification and sends no request.
C21_InvalidFormSendsNothing ==
  [][(SubmitStep /\ ev'[2] # "valid") =>
       /\ NewRequests = {}
       /\ Len(notifications') = Len(notifications) + 1
       /\ notifications'[Len(notifications')].type \in {"warning", "error"}]_vars

\* a gateway request settles with a non-success answer or with none at all
FailedSettleStep ==
  /\ ev'[1] \in {"fetchUsersSettled", "fetchDepartmentsSettled", "createSettled",
                 "UserModalSettled", "deleteUserSettled", "bulkDeleteSettled",
                 "importPreviewSettled", "importConfirmSettled", "fetchDeletedSettled",
                 "panelBulkSettled", "rowSettled"}
  /\ ~(ev'[2].status >= 200 /\ ev'[2].status <= 299)

\* C22: a failed operation adds exactly one notification, a rate-limited one
\* (status 429) adds none, and a failed sign-in adds exactly one. Steps that
\* reload the page are left aside.
C22_OneNotificationPerFailure ==
  [][/\ (FailedSettleStep /\ mounted') =>
          IF ev'[2].status = 429 THEN notifications' = notifications
          ELSE /\ Len(notifications') = Len(notifications) + 1
               /\ SubSeq(notifications', 1, Len(notifications)) = notifications
     /\ ev' = <<"signIn", FALSE>> => Len(notifications') = Len(notifications) + 1]_vars

\* C23: whichever gateway request is answered with 401, the session is
\* removed from session storage and the page reloads to the login view.
C23_UnauthorizedForcesLogout ==
  [][(/\ ev'[1] \in {"fetchUsersSettled", "fetchDepartmentsSettled", "createSettled",
                      "UserModalSettled", "deleteUserSettled", "bulkDeleteSettled",
                      "fetchDeletedSettled", "panelBulkSettled", "rowSettled"}
      /\ ev'[2].status = 401) =>
       /\ sessionLoggedIn' = FALSE
       /\ isLoggedIn' = FALSE
       /\ inflight' = {}]_vars

\* C24: while the session is not logged in no request is in flight or was
\* issued in this page life and the list is empty with total 0; clearUsers
\* empties the items, zeroes the total and leaves every other field of the
\* slice as it was.
C24_LoggedOutClearsAndSendsNothing ==
  /\ ~isLoggedIn => /\ inflight = {} /\ nReq = 0
                    /\ items = <<>> /\ totalUsers = 0
  /\ normOut # Null =>
       /\ normOut[1].items = <<>> /\ normOut[1].totalUsers = 0
       /\ \A f \in DOMAIN normIn[1] \ {"items", "totalUsers"} :
            normOut[1][f] = normIn[1][f]

\* the page is mounted without a session after the listing effect ran, and
\* clearUsers was given a slice with a list, a total, a search, page 2, a
\* selection and a rate-limit signal
C24_Witness ==
  /\ mounted /\ ~isLoggedIn /\ ev = <<"clearUsers">>
  /\ normIn[1].items # <<>> /\ normIn[1].totalUsers = 31
  /\ normIn[1].searchQuery = "a" /\ normIn[1].currentPage = 2
  /\ normIn[1].selectedUsers # {} /\ normIn[1].rateLimitInfo # Null
  /\ normOut # Null

\* C25: the loading flag is true exactly while a listing request is in
\* flight.
C25_LoadingWhileListingInFlight ==
  isLoading <=> (\E r \in inflight : r.kind = "list")

\* C26: the store holds the items and total of the listing response applied
\* last; when the listing responses settled in the order of their requests
\* and the latest one was applied, then once no listing request is in flight
\* the store holds the result for the current query parameters.  (That a
\* response overtaken by an older one leaves the older result in the store is
\* the reachable state C26_Witness.)
NoListingInFlight == \A r \in inflight : r.kind # "list"

ListingIdle == mounted /\ isLoggedIn /\ ~dirty /\ NoListingInFlight

C26_LastAppliedResponseWins ==
  /\ (ev[1] = "fetchUsersSettled" /\ shown.applied) =>
        /\ items = [k \in 1..Len(ev[2].users) |-> normalizeUser(ev[2].users[k])]
        /\ totalUsers = (IF ev[2].total # Null THEN ev[2].total[1] ELSE 0)
  /\ (ListingIdle /\ shown.applied /\ shown.ordered) => shown.params = ListParams

C26_Witness ==
  /\ ListingIdle /\ shown.applied /\ ~shown.ordered
  /\ shown.params # ListParams

\* C27: when a listing response has succeeded and no listing request is in
\* flight, the current page lies between 1 and the last page of the result
\* set, max(1, ceil(totalUsers / 30)).
C27_PageWithinRange ==
  (/\ ev[1] = "fetchUsersSettled" /\ ev[2].status = 200 /\ ev[2].json
   /\ NoListingInFlight)
    => /\ 1 <= currentPage
       /\ currentPage <= Max(1, Ceil(totalUsers, USERS_PER_PAGE))

\* C28: every entry of the recently-viewed list, in memory and persisted, is
\* only the projection (id, names, email, image reference) of a user: no
\* entry carries any other user field.
C28_RecentsOnlyProjection ==
  /\ \A k \in 1..Len(recentUsers) : ~recentUsers[k].extra
  /\ \A key \in RecentKeys :
       \A k \in 1..Len(lsRecents[key].list) : ~lsRecents[key].list[k].extra

\* C29: closing the countdown toast by hand clears the rate-limit signal and
\* no retry timeout fires afterwards for that signal; and while the page
\* lives the toast disappears only by that close or by its countdown having
\* reached zero.
ToastDisappears == rateLimitInfo # Null /\ rateLimitInfo' = Null /\ mounted'

C29_ToastCloseCancelsRetry ==
  [][/\ ev' = <<"ToastClose">> => rateLimitInfo' = Null
     /\ sigFate = "closed" => ev' # <<"RetryTimeout">>
     /\ ToastDisappears =>
          \/ ev' = <<"ToastClose">>
          \/ toastLeft = Some(0)
          \/ (toastLeft = Null /\ rateLimitInfo[1].retryAfter <= 0)]_vars

\* the part of C29 about the manual close alone
C29_ManualClosePart ==
  [][/\ ev' = <<"ToastClose">> => rateLimitInfo' = Null
     /\ sigFate = "closed" => ev' # <<"RetryTimeout">>]_vars

\* C30: every notification shown with a positive duration is eventually
\* removed; closing a notification leaves no timeout pending for it; a
\* removal takes exactly the one notification out of the list and leaves the
\* others as they were; removing an id that is not in the list changes
\* nothing.
IdShown(id) == \E k \in 1..Len(notifications) : notifications[k].id = id

RemovedOne(before, after) ==
  \E k \in 1..Len(before) :
    after = SubSeq(before, 1, k - 1) \o SubSeq(before, k + 1, Len(before))

RemovalStep == ev'[1] \in {"NotificationClose", "NotificationTimeout"}

C30_EventuallyRemoved ==
  \A id \in 1..MaxNotify :
    (\E k \in 1..Len(notifications) :
       notifications[k].id = id /\ notifications[k].duration > 0) ~> ~IdShown(id)

C30_RemovalIsExact ==
  [][RemovalStep =>
       /\ ev'[1] = "NotificationClose" => \A t \in timeouts' : t.id # ev'[2]
       /\ IF IdShown(ev'[2]) THEN RemovedOne(notifications, notifications')
          ELSE notifications' = notifications /\ timeoutRefs' = timeoutRefs]_vars

C30_NotificationsRemoved == C30_EventuallyRemoved /\ C30_RemovalIsExact

====
